---- MODULE Spec2Model ----
(***************************************************************************)
(* Lockdown password vault: the background session (class                  *)
(* LockdownBackground of src/background.js, the Argon2id version at lines  *)
(* 514-1422) as a state machine.                                           *)
(*                                                                         *)
(* The background script is single threaded: a message handler runs until  *)
(* it returns or reaches an await; at an await the handler is suspended    *)
(* and other handlers, or the auto-lock timer callback, may run.  Each     *)
(* action below is one such run-to-suspension piece of a handler.          *)
(*                                                                         *)
(* Conventions                                                             *)
(*  - a JavaScript value that may be null is a sequence of length 0 or 1:  *)
(*    None is null, Some(x) is x;                                          *)
(*  - text that the code inspects (names, domains, urls, queries) is a     *)
(*    sequence of one-character strings; opaque text (passwords, message   *)
(*    types, error messages) is a TLA+ string;                             *)
(*  - Date.now() is the variable now, in milliseconds;                     *)
(*  - crypto.getRandomValues returns a value never returned before (the    *)
(*    counter rng): salts are 256 bit and nonces 96 bit values of a        *)
(*    cryptographic generator;                                             *)
(*  - chrome.storage.local serves its calls in the order they are made: a   *)
(*    write takes effect when set is called, a read returns what is stored  *)
(*    when get is called, and the promises of the calls settle in the order *)
(*    of the calls; the other awaited operations (argon2.hash, the          *)
(*    crypto.subtle calls) complete in any order;                           *)
(*  - key derivation and AES-GCM are symbolic: a derived key is the record *)
(*    of the inputs that determine it, a ciphertext is the record of key,  *)
(*    nonce and plaintext, and decryption under another key or nonce       *)
(*    throws (the authentication tag does not verify).                     *)
(***************************************************************************)
EXTENDS Integers, Sequences, FiniteSets, TLC

VARIABLES
    vault,           \* this.vault: None or Some(vault object contents)
    isUnlocked,      \* this.isUnlocked
    masterPassword,  \* this.masterPassword: None or Some(password)
    autoLockTimer,   \* this.autoLockTimer: None or Some(timer id)
    autoLockDelay,   \* this.autoLockDelay: None (null) or Some(milliseconds)
    unlockTime,      \* this.unlockTime: None or Some(Date.now() at arming)
    argon2Loaded,    \* this.argon2Loaded, fixed once init() has returned
    storage,         \* chrome.storage.local: vault, setupCompleted, autoLockDelay
    timers,          \* the pending setTimeout callbacks: records [id, deadline]
    now,             \* Date.now()
    rng,             \* number of values crypto.getRandomValues / Math.random gave out
    handlers,        \* the suspended async handlers, in arrival order
    nev,             \* number of events of the environment so far
    last             \* the last response sent, or the timer callback having run

vars == << vault, isUnlocked, masterPassword, autoLockTimer, autoLockDelay,
           unlockTime, argon2Loaded, storage, timers, now, rng, handlers,
           nev, last >>

session == << vault, isUnlocked, masterPassword, autoLockTimer, autoLockDelay,
              unlockTime >>

(***************************************************************************)
(* Bounds of the model.                                                    *)
(***************************************************************************)
\* events of the environment in one behaviour: messages received, clock
\* ticks and faults (a storage write that fails, an argon2.hash that throws)
MaxEvents == 3

(***************************************************************************)
(* Program constants.                                                      *)
(***************************************************************************)
\* 5 * 60 * 1000, the default auto-lock delay
DefaultDelay == 300000
\* argon2Params
Argon2Time == 2
Argon2Mem == 32768
Argon2HashLen == 32
Argon2Parallelism == 1
\* iterations of encryptDataWithEnhancedPBKDF2
EnhancedIterations == 250000
\* iterations of the first version's encryptData
OriginalIterations == 100000
\* iterations of decryptDataLegacy
LegacyIterations == 100000

(***************************************************************************)
(* Nullable values.                                                        *)
(***************************************************************************)
None == << >>
Some(x) == << x >>
IsSome(o) == Len(o) = 1
Val(o) == o[1]

(***************************************************************************)
(* Inputs of the messages.                                                 *)
(***************************************************************************)
Passwords == {"p1", "p2"}

\* One clock tick is one default delay.
TickMs == DefaultDelay

\* Date.now() when init() returns
StartTime == 2 * TickMs

\* The values of the settings dialog's <select id="autoLockSelect">, as the
\* strings the popup sends.
DelayInputs == { <<"n","e","v","e","r">>,
                 <<"3","0","0","0","0","0">> }

(***************************************************************************)
(* Text: String.prototype.toLowerCase, includes, parseInt, URL.hostname.    *)
(***************************************************************************)
\* String.prototype.toLowerCase on the letters the inputs use
LowerChar(c) ==
    CASE c = "G" -> "g"
      [] c = "M" -> "m"
      [] c = "W" -> "w"
      [] c = "N" -> "n"
      [] OTHER -> c

ToLowerCase(s) == [i \in 1..Len(s) |-> LowerChar(s[i])]

\* String.prototype.includes: sub occurs in s as a contiguous substring
Includes(s, sub) ==
    \E i \in 1..(Len(s) + 1) :
        /\ i + Len(sub) - 1 <= Len(s)
        /\ SubSeq(s, i, i + Len(sub) - 1) = sub

DigitChars == {"0", "1", "2", "3", "4", "5", "6", "7", "8", "9"}

DigitVal(c) ==
    CASE c = "0" -> 0 [] c = "1" -> 1 [] c = "2" -> 2 [] c = "3" -> 3
      [] c = "4" -> 4 [] c = "5" -> 5 [] c = "6" -> 6 [] c = "7" -> 7
      [] c = "8" -> 8 [] c = "9" -> 9

RECURSIVE DigitsValue(_)
DigitsValue(ds) ==
    IF ds = << >> THEN 0
    ELSE 10 * DigitsValue(SubSeq(ds, 1, Len(ds) - 1)) + DigitVal(ds[Len(ds)])

\* the leading run of decimal digits of s
RECURSIVE DigitPrefix(_)
DigitPrefix(s) ==
    IF s = << >> \/ Head(s) \notin DigitChars THEN << >>
    ELSE << Head(s) >> \o DigitPrefix(Tail(s))

\* parseInt(s) for unsigned decimal text: the value of the leading digits;
\* None stands for NaN (no leading digit), which the code treats like null
ParseInt(s) ==
    IF DigitPrefix(s) = << >> THEN None ELSE Some(DigitsValue(DigitPrefix(s)))

\* A url is text whose first element, when it is an absolute url, is the
\* scheme with its "//" ("https://"); the host runs to the first "/".
RECURSIVE UpToSlash(_)
UpToSlash(s) ==
    IF s = << >> \/ Head(s) = "/" THEN << >>
    ELSE << Head(s) >> \o UpToSlash(Tail(s))

UrlParses(url) == Len(url) >= 2 /\ url[1] = "https://" /\ url[2] # "/"

\* new URL(url).hostname: the host, lower-cased by the URL parser
Hostname(url) == ToLowerCase(UpToSlash(Tail(url)))

(***************************************************************************)
(* Objects: a JavaScript object is a record; a property that is absent is   *)
(* a field that is absent.                                                  *)
(***************************************************************************)
Has(o, f) == f \in DOMAIN o

\* o.f is truthy, for a text property
TruthyText(o, f) == Has(o, f) /\ o[f] # << >>

\* { ...o, f: v }
With(o, f, v) == [g \in DOMAIN o \cup {f} |-> IF g = f THEN v ELSE o[g]]

\* Array.prototype.splice(index, 1)
\* a splice that removes the last element whatever the index
RemoveAt_Pop(seq, index) == SubSeq(seq, 1, Len(seq) - 1)

RemoveAt(seq, index) ==
    [i \in 1..(Len(seq) - 1) |-> IF i < index THEN seq[i] ELSE seq[i + 1]]

\* Array.prototype.findIndex(cred => cred.id === id): 0 stands for -1
FindIndex(creds, id) ==
    IF \E i \in 1..Len(creds) : creds[i].id = id
    THEN CHOOSE i \in 1..Len(creds) :
            /\ creds[i].id = id
            /\ \A j \in 1..(i - 1) : creds[j].id # id
    ELSE 0

(***************************************************************************)
(* JSON.stringify / JSON.parse and TextEncoder / TextDecoder.  The vault    *)
(* holds text and numbers only, which JSON preserves; what stringify does   *)
(* is copy the object's contents at the moment of the call into a text that *)
(* later changes of the object do not reach.                                *)
(***************************************************************************)
JsonStringify(data) == [json |-> data]
JsonParse(text) == text.json

(***************************************************************************)
(* Key derivation and the cipher.                                           *)
(***************************************************************************)
\* argon2.hash({pass, salt, time, mem, parallelism, type: Argon2id, hashLen})
Argon2Hash(pass, salt, time, mem, parallelism, hashLen) ==
    [alg |-> "argon2id", pass |-> pass, salt |-> salt, time |-> time,
     mem |-> mem, parallelism |-> parallelism, hashLen |-> hashLen]

\* crypto.subtle.deriveKey({name: 'PBKDF2', salt, iterations, hash: 'SHA-256'})
Pbkdf2DeriveKey(pass, salt, iterations) ==
    [alg |-> "PBKDF2-SHA-256", pass |-> pass, salt |-> salt,
     iterations |-> iterations]

\* crypto.subtle.encrypt({name: 'AES-GCM', iv}, key, data)
AesGcmEncrypt(key, iv, data) == [key |-> key, iv |-> iv, pt |-> data]

\* the tag check left out
AesGcmDecrypt_NoTag(key, iv, ct) == Some(ct.pt)

\* crypto.subtle.decrypt({name: 'AES-GCM', iv}, key, data): None when it
\* throws, which it does unless key and nonce are those of the encryption
AesGcmDecrypt(key, iv, ct) ==
    IF ct.key = key /\ ct.iv = iv THEN Some(ct.pt) ELSE None

\* the object encryptDataWithArgon2 returns, without encryptionTime (a
\* duration measured with performance.now())
Argon2Envelope(text, password, salt, iv) ==
    [encrypted |-> AesGcmEncrypt(
                       Argon2Hash(password, salt, Argon2Time, Argon2Mem,
                                  Argon2Parallelism, Argon2HashLen),
                       iv, text),
     salt |-> salt, iv |-> iv, version |-> "2.0", kdf |-> "argon2id",
     kdfParams |-> [time |-> Argon2Time, memory |-> Argon2Mem,
                    parallelism |-> Argon2Parallelism,
                    hashLen |-> Argon2HashLen]]

\* an encryptDataWithEnhancedPBKDF2 with the first version's iteration count
Pbkdf2Envelope_OriginalIterations(text, password, salt, iv) ==
    [encrypted |-> AesGcmEncrypt(
                       Pbkdf2DeriveKey(password, salt, OriginalIterations),
                       iv, text),
     salt |-> salt, iv |-> iv, version |-> "2.0", kdf |-> "enhanced-pbkdf2",
     kdfParams |-> [iterations |-> OriginalIterations]]

\* an encryptDataWithEnhancedPBKDF2 with one nonce for every call
Pbkdf2Envelope_FixedNonce(text, password, salt, iv) ==
    [encrypted |-> AesGcmEncrypt(
                       Pbkdf2DeriveKey(password, salt, EnhancedIterations),
                       1, text),
     salt |-> salt, iv |-> 1, version |-> "2.0", kdf |-> "enhanced-pbkdf2",
     kdfParams |-> [iterations |-> EnhancedIterations]]

\* the object encryptDataWithEnhancedPBKDF2 returns, without encryptionTime
Pbkdf2Envelope(text, password, salt, iv) ==
    [encrypted |-> AesGcmEncrypt(
                       Pbkdf2DeriveKey(password, salt, EnhancedIterations),
                       iv, text),
     salt |-> salt, iv |-> iv, version |-> "2.0", kdf |-> "enhanced-pbkdf2",
     kdfParams |-> [iterations |-> EnhancedIterations]]

\* a decryptDataWithArgon2 that derives with this.argon2Params instead of
\* the parameters the envelope records
DecryptDataWithArgon2_CurrentParams(encryptedObj, password, loaded, hashThrows) ==
    IF ~loaded \/ hashThrows THEN None
    ELSE LET key == Argon2Hash(password, encryptedObj.salt, Argon2Time,
                               Argon2Mem, Argon2Parallelism, Argon2HashLen)
             decrypted == AesGcmDecrypt(key, encryptedObj.iv,
                                        encryptedObj.encrypted)
         IN  IF IsSome(decrypted) THEN Some(JsonParse(Val(decrypted)))
             ELSE None

\* decryptDataWithArgon2: None when it throws; hashThrows is argon2.hash
\* failing in this call
DecryptDataWithArgon2(encryptedObj, password, loaded, hashThrows) ==
    IF ~loaded \/ hashThrows THEN None
    ELSE LET params == encryptedObj.kdfParams
             key == Argon2Hash(password, encryptedObj.salt, params.time,
                               params.memory, params.parallelism,
                               params.hashLen)
             decrypted == AesGcmDecrypt(key, encryptedObj.iv,
                                        encryptedObj.encrypted)
         IN  IF IsSome(decrypted) THEN Some(JsonParse(Val(decrypted)))
             ELSE None

\* a decryptDataWithEnhancedPBKDF2 that derives with the first version's
\* iteration count instead of the one the envelope records
DecryptDataWithEnhancedPBKDF2_FixedIterations(encryptedObj, password) ==
    LET key == Pbkdf2DeriveKey(password, encryptedObj.salt, LegacyIterations)
        decrypted == AesGcmDecrypt(key, encryptedObj.iv, encryptedObj.encrypted)
    IN  IF IsSome(decrypted) THEN Some(JsonParse(Val(decrypted))) ELSE None

DecryptDataWithEnhancedPBKDF2(encryptedObj, password) ==
    LET key == Pbkdf2DeriveKey(password, encryptedObj.salt,
                               encryptedObj.kdfParams.iterations)
        decrypted == AesGcmDecrypt(key, encryptedObj.iv, encryptedObj.encrypted)
    IN  IF IsSome(decrypted) THEN Some(JsonParse(Val(decrypted))) ELSE None

\* a decryptDataLegacy that derives with the iteration count of the
\* enhanced scheme
DecryptDataLegacy_EnhancedIterations(encryptedObj, password) ==
    LET key == Pbkdf2DeriveKey(password, encryptedObj.salt, EnhancedIterations)
        decrypted == AesGcmDecrypt(key, encryptedObj.iv, encryptedObj.encrypted)
    IN  IF IsSome(decrypted) THEN Some(JsonParse(Val(decrypted))) ELSE None

DecryptDataLegacy(encryptedObj, password) ==
    LET key == Pbkdf2DeriveKey(password, encryptedObj.salt, LegacyIterations)
        decrypted == AesGcmDecrypt(key, encryptedObj.iv, encryptedObj.encrypted)
    IN  IF IsSome(decrypted) THEN Some(JsonParse(Val(decrypted))) ELSE None

\* decryptVault: dispatch on the envelope's kdf tag
DecryptVault(encryptedObj, password, loaded, hashThrows) ==
    IF Has(encryptedObj, "kdf") /\ encryptedObj.kdf = "argon2id"
    THEN DecryptDataWithArgon2(encryptedObj, password, loaded, hashThrows)
    ELSE IF Has(encryptedObj, "kdf") /\ encryptedObj.kdf = "enhanced-pbkdf2"
    THEN DecryptDataWithEnhancedPBKDF2(encryptedObj, password)
    ELSE DecryptDataLegacy(encryptedObj, password)

(***************************************************************************)
(* Timers: setTimeout / clearTimeout.                                       *)
(***************************************************************************)
TimerIds(ts) == {t.id : t \in ts}

\* clearTimeout(id): a no-op when no such timer is pending
ClearTimeout(ts, id) == {t \in ts : t.id # id}

\* the id setTimeout returns: positive, and the id of no pending timer nor
\* the one the session last held
NewTimerId(ts, handle) ==
    CHOOSE n \in 1..(Cardinality(ts) + 2) :
        /\ n \notin TimerIds(ts)
        /\ handle # Some(n)
        /\ \A m \in 1..(n - 1) : m \in TimerIds(ts) \/ handle = Some(m)

\* !this.autoLockDelay is false
TruthyDelay(delay) == IsSome(delay) /\ Val(delay) # 0

\* a startAutoLockTimer that arms the new timer without cancelling the old
StartAutoLockTimer_NoClear(ts, handle, delay, ut, t) ==
    IF ~TruthyDelay(delay)
    THEN [timers |-> ts, autoLockTimer |-> None, unlockTime |-> ut]
    ELSE LET id == NewTimerId(ts, handle)
         IN  [timers |-> ts \cup {[id |-> id, deadline |-> t + Val(delay)]},
              autoLockTimer |-> Some(id), unlockTime |-> Some(t)]

\* startAutoLockTimer, on the pending timers ts, this.autoLockTimer (handle),
\* this.autoLockDelay, this.unlockTime (ut) and Date.now() (t): the new
\* values of the three it assigns
StartAutoLockTimer(ts, handle, delay, ut, t) ==
    LET cleared == IF IsSome(handle) THEN ClearTimeout(ts, Val(handle)) ELSE ts
    IN  IF ~TruthyDelay(delay)
        THEN [timers |-> cleared, autoLockTimer |-> None, unlockTime |-> ut]
        ELSE LET id == NewTimerId(cleared, handle)
             IN  [timers |-> cleared \cup
                                {[id |-> id, deadline |-> t + Val(delay)]},
                  autoLockTimer |-> Some(id), unlockTime |-> Some(t)]

\* a lockVault that forgets the timer handle without clearTimeout
LockVaultTimers_NoClear(ts, handle) == ts

\* lockVault's if (this.autoLockTimer) clearTimeout(this.autoLockTimer)
LockVaultTimers(ts, handle) ==
    IF IsSome(handle) THEN ClearTimeout(ts, Val(handle)) ELSE ts

(***************************************************************************)
(* Suspended handlers.                                                      *)
(*  op      the message type                                                *)
(*  pc      the await the handler is suspended at                           *)
(*  pw      the password argument                                           *)
(*  alias   the handler's data argument is the object this.vault refers to  *)
(*  data    the contents of the data argument when it is another object     *)
(*  text    the JSON text encryption works on                               *)
(*  found   unlockVault's result.vault                                      *)
(*  failed  the awaited chrome.storage.local.set rejects                    *)
(*  out     what the response will carry (credential, security)             *)
(*  lockedAt  the await the handler was suspended at when LOCK_VAULT was    *)
(*          last handled, "" when none was since the handler began          *)
(*  unlockedAtStart  of an unlockVault or updateAutoLock: this.isUnlocked   *)
(*                   when it began                                          *)
(*  ticket  the position of the handler's call among the calls of           *)
(*          chrome.storage.local not yet settled, 0 when it awaits none     *)
(* alias matters while the handler may still stringify its data argument    *)
(* (pc = "argon2") and is dropped when it no longer can; setupVault keeps   *)
(* its data, the vault object it makes this.vault at the end.               *)
(***************************************************************************)
NoOut == [none |-> TRUE]

Handler(op, pc, pw, alias, data, text, found, out) ==
    [op |-> op, pc |-> pc, pw |-> pw, alias |-> alias, data |-> data,
     text |-> text, found |-> found, failed |-> FALSE, out |-> out,
     lockedAt |-> "", ticket |-> 0, unlockedAtStart |-> FALSE]

\* the ticket of a call of chrome.storage.local made now
NextTicket(hs) ==
    1 + Cardinality({i \in 1..Len(hs) : hs[i].ticket > 0})

\* handler i's call of chrome.storage.local is the next to settle
Settles(hs, i) ==
    /\ hs[i].ticket > 0
    /\ \A j \in 1..Len(hs) : hs[j].ticket > 0 => hs[i].ticket <= hs[j].ticket

\* a call settled: the calls behind it move up
Settled(hs) ==
    [i \in 1..Len(hs) |->
        IF hs[i].ticket > 0 THEN [hs[i] EXCEPT !.ticket = @ - 1] ELSE hs[i]]

\* the contents of handler h's data argument
DataOf(h, v) == IF h.alias THEN Val(v) ELSE Val(h.data)

\* this.vault is about to refer to another object, or to none: the handlers
\* whose data argument is the old object keep it
Detach(hs, v) ==
    [i \in 1..Len(hs) |->
        IF hs[i].alias
        THEN [hs[i] EXCEPT !.alias = FALSE, !.data = v]
        ELSE hs[i]]

\* LOCK_VAULT was handled: note it in the suspended handlers
NoteLock(hs) == [i \in 1..Len(hs) |-> [hs[i] EXCEPT !.lockedAt = hs[i].pc]]

Remove(hs, i) == SubSeq(hs, 1, i - 1) \o SubSeq(hs, i + 1, Len(hs))

MutatingOps == {"SAVE_CREDENTIAL", "UPDATE_CREDENTIAL", "DELETE_CREDENTIAL"}

(***************************************************************************)
(* The last response sent (or the timer callback having run): the message   *)
(* type, its argument, the response, and whether the session was unlocked   *)
(* when the step began.                                                     *)
(***************************************************************************)
NoResp == [none |-> TRUE]
NoArg == [none |-> TRUE]

Event(type, arg, resp) ==
    [type |-> type, arg |-> arg, resp |-> resp, wasUnlocked |-> isUnlocked]

\* a message can still be received
CanReceive == nev < MaxEvents

\* a fault can still happen, the clock can still tick
CanFail == nev < MaxEvents

\* the outcomes of an operation of the environment: TRUE is success
Outcomes == IF CanFail THEN BOOLEAN ELSE {TRUE}

Faults(ok) == IF ok THEN 0 ELSE 1

(***************************************************************************)
(* encryptData, entered by setupVault and the three mutating handlers: the  *)
(* part that runs before the first await.  With Argon2 loaded the data is   *)
(* stringified and argon2.hash awaited; without, the data is stringified    *)
(* and the PBKDF2 derivation awaited.                                       *)
(***************************************************************************)
EncryptDataPc(loaded) == IF loaded THEN "argon2" ELSE "pbkdf2"

\* the handler record of a handler entering encryptData(data, password),
\* where data is this.vault (alias) or the fresh object with contents
\* content
EnterEncrypt(op, password, alias, content, out) ==
    Handler(op, EncryptDataPc(argon2Loaded), password,
            alias /\ argon2Loaded,
            IF alias THEN None ELSE Some(content),
            Some(JsonStringify(content)), None, out)

(***************************************************************************)
(* SETUP_VAULT: setupVault up to its first await.                           *)
(***************************************************************************)
NewVault(t, loaded) ==
    [credentials |-> << >>, created |-> t, version |-> "2.0",
     security |-> IF loaded THEN "argon2id" ELSE "enhanced-pbkdf2"]

SetupVault(masterPw) ==
    /\ CanReceive
    /\ handlers' = Append(handlers,
          EnterEncrypt("SETUP_VAULT", masterPw, FALSE,
                       NewVault(now, argon2Loaded),
                       [security |-> NewVault(now, argon2Loaded).security]))
    /\ nev' = nev + 1
    /\ UNCHANGED << session, argon2Loaded, storage, timers, now, rng, last >>

(***************************************************************************)
(* encryptData after its awaits, and the call of chrome.storage.local.set   *)
(* that follows it in every caller.  The storage area applies writes in the *)
(* order of the calls, so the write takes effect at the call; the handler   *)
(* is resumed when the call settles.  A write that fails (the promise       *)
(* rejects) leaves the stored value as it was.                              *)
(***************************************************************************)
\* a write that leaves the envelope out
WriteVault_FlagOnly(st, op, encrypted) ==
    IF op = "SETUP_VAULT" THEN [st EXCEPT !.setupCompleted = TRUE] ELSE st

\* a write of the JSON text in place of the envelope made from it
WriteVault_Plaintext(st, op, encrypted) ==
    IF op = "SETUP_VAULT"
    THEN [st EXCEPT !.vault = Some(encrypted.encrypted.pt),
                    !.setupCompleted = TRUE]
    ELSE [st EXCEPT !.vault = Some(encrypted.encrypted.pt)]

\* chrome.storage.local.set({vault: encrypted, setupCompleted: true}) of
\* setupVault, set({vault: encrypted}) of the mutating handlers
WriteVault(st, op, encrypted) ==
    IF op = "SETUP_VAULT"
    THEN [st EXCEPT !.vault = Some(encrypted), !.setupCompleted = TRUE]
    ELSE [st EXCEPT !.vault = Some(encrypted)]

\* a handler that goes on after a rejected storage.set as after a
\* resolved one
AwaitStorage_IgnoresRejection(h, encrypted, ok, n) ==
    [h EXCEPT !.pc = "storing", !.failed = FALSE, !.alias = FALSE,
              !.text = None, !.ticket = n,
              !.out = IF h.op = "SAVE_CREDENTIAL"
                      THEN With(h.out, "security", encrypted.kdf)
                      ELSE h.out]

\* the handler after encryptData returned encrypted and storage.set was
\* called with ticket n, with ok telling whether the write succeeds
AwaitStorage(h, encrypted, ok, n) ==
    [h EXCEPT !.pc = "storing", !.failed = ~ok, !.alias = FALSE,
              !.text = None, !.ticket = n,
              !.out = IF h.op = "SAVE_CREDENTIAL"
                      THEN With(h.out, "security", encrypted.kdf)
                      ELSE h.out]

\* encryptDataWithArgon2 from argon2.hash returning to the return statement.
\* The salt, drawn before the await, is a value drawn nowhere else, whenever
\* it is drawn: it is numbered here, with the nonce.
Argon2Done(i) ==
    /\ i \in 1..Len(handlers)
    /\ handlers[i].pc = "argon2"
    /\ LET h == handlers[i]
           encrypted == Argon2Envelope(Val(h.text), h.pw, rng + 1, rng + 2)
       IN  \E ok \in Outcomes :
             /\ storage' = IF ok THEN WriteVault(storage, h.op, encrypted)
                           ELSE storage
             /\ handlers' = [handlers EXCEPT ![i] =
                                AwaitStorage(h, encrypted, ok,
                                             NextTicket(handlers))]
             /\ nev' = nev + Faults(ok)
    /\ rng' = rng + 2
    /\ UNCHANGED << session, argon2Loaded, timers, now, last >>

\* argon2.hash throws: the catch block enters encryptDataWithEnhancedPBKDF2,
\* which stringifies the data argument again, as it is now
Argon2Throws(i) ==
    /\ i \in 1..Len(handlers)
    /\ handlers[i].pc = "argon2"
    /\ CanFail
    /\ handlers' = [handlers EXCEPT ![i] =
          [@ EXCEPT !.pc = "pbkdf2", !.alias = FALSE,
                    !.text = Some(JsonStringify(DataOf(handlers[i], vault)))]]
    /\ nev' = nev + 1
    /\ UNCHANGED << session, argon2Loaded, storage, timers, now, rng, last >>

\* encryptDataWithEnhancedPBKDF2 from its first await to the return statement
Pbkdf2Done(i) ==
    /\ i \in 1..Len(handlers)
    /\ handlers[i].pc = "pbkdf2"
    /\ LET h == handlers[i]
           encrypted == Pbkdf2Envelope(Val(h.text), h.pw, rng + 1, rng + 2)
       IN  \E ok \in Outcomes :
             /\ storage' = IF ok THEN WriteVault(storage, h.op, encrypted)
                           ELSE storage
             /\ handlers' = [handlers EXCEPT ![i] =
                                AwaitStorage(h, encrypted, ok,
                                             NextTicket(handlers))]
             /\ nev' = nev + Faults(ok)
    /\ rng' = rng + 2
    /\ UNCHANGED << session, argon2Loaded, timers, now, last >>

\* error.message of a rejected chrome.storage.local.set
StorageError == "storage write failed"

\* a setupVault that unlocks the session before it awaits storage.set: the
\* assignments are made whether the write is rejected or not
SetupVaultDone_UnlocksBeforeWrite(i) ==
    /\ i \in 1..Len(handlers)
    /\ handlers[i].op = "SETUP_VAULT"
    /\ handlers[i].pc = "storing"
    /\ Settles(handlers, i)
    /\ LET h == handlers[i]
           rest == Settled(Remove(handlers, i))
           armed == StartAutoLockTimer(timers, autoLockTimer, autoLockDelay,
                                       unlockTime, now)
       IN  /\ vault' = h.data
           /\ masterPassword' = Some(h.pw)
           /\ isUnlocked' = TRUE
           /\ timers' = armed.timers
           /\ autoLockTimer' = armed.autoLockTimer
           /\ unlockTime' = armed.unlockTime
           /\ handlers' = Detach(rest, vault)
           /\ last' = Event("SETUP_VAULT", [masterPassword |-> h.pw],
                            IF h.failed THEN [error |-> StorageError]
                            ELSE [success |-> TRUE,
                                  security |-> h.out.security])
           /\ UNCHANGED autoLockDelay
    /\ UNCHANGED << argon2Loaded, storage, now, rng, nev >>

(***************************************************************************)
(* setupVault from the return of storage.set to its return.                 *)
(***************************************************************************)
SetupVaultDone(i) ==
    /\ i \in 1..Len(handlers)
    /\ handlers[i].op = "SETUP_VAULT"
    /\ handlers[i].pc = "storing"
    /\ Settles(handlers, i)
    /\ LET h == handlers[i]
           rest == Settled(Remove(handlers, i))
       IN  IF h.failed
           THEN /\ last' = Event("SETUP_VAULT", [masterPassword |-> h.pw],
                                 [error |-> StorageError])
                /\ handlers' = rest
                /\ UNCHANGED << session, timers >>
           ELSE LET armed == StartAutoLockTimer(timers, autoLockTimer,
                                                autoLockDelay, unlockTime, now)
                IN  /\ vault' = h.data
                    /\ masterPassword' = Some(h.pw)
                    /\ isUnlocked' = TRUE
                    /\ timers' = armed.timers
                    /\ autoLockTimer' = armed.autoLockTimer
                    /\ unlockTime' = armed.unlockTime
                    /\ handlers' = Detach(rest, vault)
                    /\ last' = Event("SETUP_VAULT", [masterPassword |-> h.pw],
                                     [success |-> TRUE,
                                      security |-> h.out.security])
                    /\ UNCHANGED autoLockDelay
    /\ UNCHANGED << argon2Loaded, storage, now, rng, nev >>

(***************************************************************************)
(* UNLOCK_VAULT: unlockVault to its await of chrome.storage.local.get,      *)
(* from there to its await of decryptVault, and from there to its return.   *)
(***************************************************************************)
UnlockVault(masterPw) ==
    /\ CanReceive
    /\ handlers' = Append(handlers,
          [Handler("UNLOCK_VAULT", "getting", masterPw, FALSE, None, None,
                   storage.vault, NoOut)
              EXCEPT !.ticket = NextTicket(handlers),
                     !.unlockedAtStart = isUnlocked])
    /\ nev' = nev + 1
    /\ UNCHANGED << session, argon2Loaded, storage, timers, now, rng, last >>

\* decryptVault throws before its first await: decryptDataWithArgon2 without
\* the library
ThrowsAtOnce(encryptedObj, loaded) ==
    Has(encryptedObj, "kdf") /\ encryptedObj.kdf = "argon2id" /\ ~loaded

\* an unlockVault without the test of result.vault: decryptVault reads
\* a property of undefined, and the catch block answers
EarlyReturn_NoTest(found, loaded) ==
    IF ~IsSome(found) \/ ThrowsAtOnce(Val(found), loaded)
    THEN Some([error |-> "Invalid password"])
    ELSE None

\* what unlockVault returns between chrome.storage.local.get and the first
\* await inside decryptVault, None when it reaches that await
EarlyReturn(found, loaded) ==
    IF ~IsSome(found) THEN Some([error |-> "No vault found"])
    ELSE IF ThrowsAtOnce(Val(found), loaded)
    THEN Some([error |-> "Invalid password"])
    ELSE None

UnlockVaultGot(i) ==
    /\ i \in 1..Len(handlers)
    /\ handlers[i].op = "UNLOCK_VAULT"
    /\ handlers[i].pc = "getting"
    /\ Settles(handlers, i)
    /\ LET h == handlers[i]
           early == EarlyReturn(h.found, argon2Loaded)
       IN  IF IsSome(early)
           THEN /\ last' = Event("UNLOCK_VAULT", [masterPassword |-> h.pw],
                                 Val(early))
                /\ handlers' = Settled(Remove(handlers, i))
           ELSE /\ handlers' = Settled([handlers EXCEPT ![i] =
                                    [@ EXCEPT !.pc = "decrypting",
                                              !.ticket = 0]])
                /\ UNCHANGED last
    /\ UNCHANGED << session, argon2Loaded, storage, timers, now, rng, nev >>

\* the outcomes of argon2.hash in a decryption of encryptedObj: it is
\* called for an argon2id envelope
HashOutcomes(encryptedObj) ==
    IF Has(encryptedObj, "kdf") /\ encryptedObj.kdf = "argon2id"
    THEN Outcomes ELSE {TRUE}

UnlockVaultDone(i) ==
    /\ i \in 1..Len(handlers)
    /\ handlers[i].op = "UNLOCK_VAULT"
    /\ handlers[i].pc = "decrypting"
    /\ LET h == handlers[i]
           rest == Remove(handlers, i)
       IN  \E hashOk \in HashOutcomes(Val(h.found)) :
              LET vaultData == DecryptVault(Val(h.found), h.pw, argon2Loaded,
                                            ~hashOk)
                  armed == StartAutoLockTimer(timers, autoLockTimer,
                                              autoLockDelay, unlockTime, now)
              IN  /\ nev' = nev + Faults(hashOk)
                  /\ IF ~IsSome(vaultData)
                     THEN /\ last' = Event("UNLOCK_VAULT",
                                           [masterPassword |-> h.pw],
                                           [error |-> "Invalid password"])
                          /\ handlers' = rest
                          /\ UNCHANGED << session, timers >>
                     ELSE /\ vault' = vaultData
                          /\ masterPassword' = Some(h.pw)
                          /\ isUnlocked' = TRUE
                          /\ timers' = armed.timers
                          /\ autoLockTimer' = armed.autoLockTimer
                          /\ unlockTime' = armed.unlockTime
                          /\ handlers' = Detach(rest, vault)
                          /\ last' = Event("UNLOCK_VAULT",
                                           [masterPassword |-> h.pw],
                                           [success |-> TRUE,
                                            vault |-> Val(vaultData)])
                          /\ UNCHANGED autoLockDelay
    /\ UNCHANGED << argon2Loaded, storage, now, rng >>

(***************************************************************************)
(* LOCK_VAULT and the timer callback: lockVault, which has no await.        *)
(***************************************************************************)
\* a lockVault that keeps this.masterPassword
DoLockVault_KeepsPassword(ts, hs) ==
    /\ vault' = None
    /\ isUnlocked' = FALSE
    /\ unlockTime' = None
    /\ timers' = LockVaultTimers(ts, autoLockTimer)
    /\ autoLockTimer' = None
    /\ handlers' = hs
    /\ UNCHANGED masterPassword

\* lockVault's assignments, with ts the timers pending when it is entered
\* and hs the suspended handlers, which keep the vault object they hold
DoLockVault(ts, hs) ==
    /\ vault' = None
    /\ masterPassword' = None
    /\ isUnlocked' = FALSE
    /\ unlockTime' = None
    /\ timers' = LockVaultTimers(ts, autoLockTimer)
    /\ autoLockTimer' = None
    /\ handlers' = hs

LockVault ==
    /\ CanReceive
    /\ DoLockVault(timers, NoteLock(Detach(handlers, vault)))
    /\ nev' = nev + 1
    /\ last' = Event("LOCK_VAULT", NoArg, [success |-> TRUE])
    /\ UNCHANGED << autoLockDelay, argon2Loaded, storage, now, rng >>

\* a pending timer whose delay has passed runs its callback; the callback
\* may run later than its deadline, never earlier
TimerFire ==
    /\ \E t \in timers :
          /\ now >= t.deadline
          /\ DoLockVault(timers \ {t}, Detach(handlers, vault))
          /\ last' = Event("timer", NoArg, NoResp)
    /\ UNCHANGED << autoLockDelay, argon2Loaded, storage, now, rng, nev >>

(***************************************************************************)
(* The clock.  The passing of one tick is an event of the environment; once *)
(* the events are used up the clock still runs to the deadline of a pending *)
(* timer, and then stops.                                                   *)
(***************************************************************************)
Tick ==
    /\ \/ CanFail /\ nev' = nev + 1
       \/ ~CanFail /\ (\E t \in timers : t.deadline > now) /\ nev' = nev
    /\ now' = now + TickMs
    /\ UNCHANGED << session, argon2Loaded, storage, timers, rng, handlers,
                    last >>

(***************************************************************************)
(* Credentials.                                                             *)
(***************************************************************************)
\* the credential objects the callers send with SAVE_CREDENTIAL: one with a
\* domain, one without a domain and with a url
CredentialInputs ==
    { [name |-> <<"G", "m">>, domain |-> <<"g", "m">>, username |-> <<"a">>,
       password |-> "x"],
      [name |-> <<"W">>, username |-> <<"b">>, password |-> "y",
       url |-> <<"https://", "M", "g", "/">>] }

\* what Math.random().toString(36).substr(2, 9) can give
RandomSuffixes == {1, 2}

\* an id that saveCredential never assigns
UnknownId == << 0, 1 >>

Ids(v) == IF IsSome(v)
          THEN {Val(v).credentials[k].id : k \in 1..Len(Val(v).credentials)}
          ELSE {}

\* the credential objects sent with UPDATE_CREDENTIAL for id: a new password
\* alone, and a new password with name and created
\* Suffixes are told apart only by being equal or not to those of the ids
\* made in the same millisecond: the suffixes Math.random gives a save now,
\* up to renaming, are those in use and the first one not in use.
SuffixChoices(v, t) ==
    LET used == {id[2] : id \in {x \in Ids(v) : x[1] = t}}
    IN  {r \in RandomSuffixes :
            r \in used \/ \A q \in RandomSuffixes \ used : r <= q}

UpdateInputs(id) ==
    { [id |-> id, password |-> "z"],
      [id |-> id, name |-> <<"N">>, password |-> "z", created |-> TickMs] }

\* the credential saveCredential stores: id and timestamps assigned, the
\* domain taken from the url when there is none
StampCredential(credential, t, suffix) ==
    LET stamped == With(With(With(credential, "id", << t, suffix >>),
                             "created", t), "modified", t)
    IN  IF ~TruthyText(stamped, "domain") /\ TruthyText(stamped, "url")
           /\ UrlParses(stamped.url)
        THEN With(stamped, "domain", Hostname(stamped.url))
        ELSE stamped

\* (c.created || c.modified)
Recency_CreatedFirst(c) ==
    IF Has(c, "created") /\ c.created # 0 THEN c.created
    ELSE IF Has(c, "modified") THEN c.modified ELSE 0

\* (c.modified || c.created)
Recency(c) ==
    IF Has(c, "modified") /\ c.modified # 0 THEN c.modified
    ELSE IF Has(c, "created") THEN c.created ELSE 0

\* Array.prototype.sort((a, b) => recency(b) - recency(a)): stable, the most
\* recent first
RECURSIVE InsertByRecency(_, _)
InsertByRecency(sorted, c) ==
    IF sorted = << >> THEN << c >>
    ELSE IF Recency(Head(sorted)) >= Recency(c)
    THEN << Head(sorted) >> \o InsertByRecency(Tail(sorted), c)
    ELSE << c >> \o sorted

RECURSIVE SortByRecency(_)
SortByRecency(creds) ==
    IF creds = << >> THEN << >>
    ELSE InsertByRecency(SortByRecency(SubSeq(creds, 1, Len(creds) - 1)),
                         creds[Len(creds)])

\* error.message of the TypeError that reading this.vault.credentials throws
\* when this.vault is null; handleMessage's caller answers {error} with it
NullVaultError == "Cannot read properties of null"

\* the guard of the six credential handlers left out
SessionOpen_NoGuard(unlocked, v) == TRUE

\* !(!this.isUnlocked || !this.vault)
SessionOpen(unlocked, v) == unlocked /\ IsSome(v)

\* a getCredentials that matches a credential whose domain contains the
\* argument
GetCredentials_DomainSubstring(unlocked, v, domain) ==
    IF ~unlocked \/ ~IsSome(v) THEN [credentials |-> << >>]
    ELSE LET Match(cred) ==
                \/ Has(cred, "domain") /\ Includes(cred.domain, domain)
                \/ TruthyText(cred, "url") /\ Includes(cred.url, domain)
                \/ TruthyText(cred, "name")
                   /\ Includes(ToLowerCase(cred.name), ToLowerCase(domain))
         IN  [credentials |-> SortByRecency(SelectSeq(Val(v).credentials, Match))]

\* getCredentials(domain)
GetCredentials(unlocked, v, domain) ==
    IF ~SessionOpen(unlocked, v) THEN [credentials |-> << >>]
    ELSE IF ~IsSome(v) THEN [error |-> NullVaultError]
    ELSE LET \* Array.prototype.filter(cred => ...)
             Match(cred) ==
                \/ Has(cred, "domain") /\ cred.domain = domain
                \/ TruthyText(cred, "url") /\ Includes(cred.url, domain)
                \/ TruthyText(cred, "name")
                   /\ Includes(ToLowerCase(cred.name), ToLowerCase(domain))
         IN  [credentials |-> SortByRecency(SelectSeq(Val(v).credentials, Match))]

\* getAllCredentials()
GetAllCredentials(unlocked, v) ==
    IF ~SessionOpen(unlocked, v) THEN [credentials |-> << >>]
    ELSE IF ~IsSome(v) THEN [error |-> NullVaultError]
    ELSE [credentials |-> SortByRecency(Val(v).credentials)]

\* a searchCredentials without the test of the query: the empty text
\* occurs in every text
SearchCredentials_NoQueryTest(unlocked, v, query) ==
    IF ~unlocked \/ ~IsSome(v) THEN [credentials |-> << >>]
    ELSE LET searchTerm == ToLowerCase(query)
             In(cred, f) == TruthyText(cred, f)
                            /\ Includes(ToLowerCase(cred[f]), searchTerm)
             Match(cred) == \/ In(cred, "name") \/ In(cred, "domain")
                            \/ In(cred, "username") \/ In(cred, "email")
         IN  [credentials |-> SortByRecency(SelectSeq(Val(v).credentials, Match))]

\* searchCredentials(query)
SearchCredentials(unlocked, v, query) ==
    IF ~SessionOpen(unlocked, v) \/ query = << >> THEN [credentials |-> << >>]
    ELSE IF ~IsSome(v) THEN [error |-> NullVaultError]
    ELSE LET searchTerm == ToLowerCase(query)
             In(cred, f) == TruthyText(cred, f)
                            /\ Includes(ToLowerCase(cred[f]), searchTerm)
             Match(cred) == \/ In(cred, "name") \/ In(cred, "domain")
                            \/ In(cred, "username") \/ In(cred, "email")
         IN  [credentials |-> SortByRecency(SelectSeq(Val(v).credentials, Match))]

\* getStatus()
GetStatus ==
    [isUnlocked |-> isUnlocked, hasVault |-> IsSome(vault),
     unlockTime |-> unlockTime, autoLockDelay |-> autoLockDelay,
     credentialCount |-> IF IsSome(vault) THEN Len(Val(vault).credentials) ELSE 0,
     securityLevel |-> IF argon2Loaded THEN "argon2id" ELSE "enhanced-pbkdf2",
     argon2Available |-> argon2Loaded]

Max(a, b) == IF a >= b THEN a ELSE b

\* a getRemainingTime without Math.max(0, ...)
GetRemainingTime_NoClamp(unlocked, ut, delay, t) ==
    IF ~unlocked \/ ~IsSome(ut) \/ Val(ut) = 0 \/ ~TruthyDelay(delay)
    THEN [remaining |-> None]
    ELSE LET remaining == Val(delay) - (t - Val(ut))
             totalSeconds == remaining \div 1000
         IN  [remaining |-> Some(remaining),
              remainingMinutes |-> totalSeconds \div 60,
              remainingSeconds |-> totalSeconds % 60,
              totalSeconds |-> totalSeconds]

\* getRemainingTime(), with t = Date.now()
GetRemainingTime(unlocked, ut, delay, t) ==
    IF ~unlocked \/ ~IsSome(ut) \/ Val(ut) = 0 \/ ~TruthyDelay(delay)
    THEN [remaining |-> None]
    ELSE LET elapsed == t - Val(ut)
             remaining == Max(0, Val(delay) - elapsed)
             totalSeconds == remaining \div 1000
         IN  [remaining |-> Some(remaining),
              remainingMinutes |-> totalSeconds \div 60,
              remainingSeconds |-> totalSeconds % 60,
              totalSeconds |-> totalSeconds]

(***************************************************************************)
(* GET_CREDENTIALS, GET_ALL_CREDENTIALS, SEARCH_CREDENTIALS, GET_STATUS and *)
(* GET_REMAINING_TIME have no await and assign nothing: handling one is a   *)
(* stuttering step, and the response is the operator above applied to the   *)
(* state the message finds.  These are the arguments they are asked with.   *)
(***************************************************************************)
DomainInputs == { <<"g", "m">>, <<"m", "g">> }
QueryInputs == { << >>, <<"g">> }

(***************************************************************************)
(* SAVE_CREDENTIAL, DELETE_CREDENTIAL, UPDATE_CREDENTIAL: each handler up   *)
(* to its first await, which is inside encryptData(this.vault,              *)
(* this.masterPassword); a handler that returns before it answers at once.  *)
(***************************************************************************)
\* the password argument: this.masterPassword, which TextEncoder would turn
\* into the text "null" were it null
PasswordArg(pw) == IF IsSome(pw) THEN Val(pw) ELSE "null"

Answer(type, arg, resp) ==
    /\ last' = Event(type, arg, resp)
    /\ nev' = nev + 1
    /\ UNCHANGED << session, argon2Loaded, storage, timers, now, rng, handlers >>

\* a handler that calls startAutoLockTimer when it changes this.vault
Mutate_RestartsCountdown(type, content, out) ==
    LET armed == StartAutoLockTimer(timers, autoLockTimer, autoLockDelay,
                                    unlockTime, now)
    IN  /\ vault' = Some(content)
        /\ handlers' = Append(handlers,
              EnterEncrypt(type, PasswordArg(masterPassword), TRUE, content,
                           out))
        /\ nev' = nev + 1
        /\ timers' = armed.timers
        /\ autoLockTimer' = armed.autoLockTimer
        /\ unlockTime' = armed.unlockTime
        /\ UNCHANGED << isUnlocked, masterPassword, autoLockDelay,
                        argon2Loaded, storage, now, rng, last >>

\* the handler changed this.vault to content and entered encryptData
Mutate(type, content, out) ==
    /\ vault' = Some(content)
    /\ handlers' = Append(handlers,
          EnterEncrypt(type, PasswordArg(masterPassword), TRUE, content, out))
    /\ nev' = nev + 1
    /\ UNCHANGED << isUnlocked, masterPassword, autoLockTimer, autoLockDelay,
                    unlockTime, argon2Loaded, storage, timers, now, rng, last >>

SaveCredential(credential, suffix) ==
    /\ CanReceive
    /\ IF ~SessionOpen(isUnlocked, vault)
       THEN Answer("SAVE_CREDENTIAL", [credential |-> credential],
                   [error |-> "Vault is locked"])
       ELSE IF ~IsSome(vault)
       THEN Answer("SAVE_CREDENTIAL", [credential |-> credential],
                   [error |-> NullVaultError])
       ELSE LET stamped == StampCredential(credential, now, suffix)
            IN  Mutate("SAVE_CREDENTIAL",
                       [Val(vault) EXCEPT !.credentials = Append(@, stamped)],
                       [credential |-> stamped])

DeleteCredential(credentialId) ==
    /\ CanReceive
    /\ IF ~SessionOpen(isUnlocked, vault)
       THEN Answer("DELETE_CREDENTIAL", [credentialId |-> credentialId],
                   [error |-> "Vault is locked"])
       ELSE IF ~IsSome(vault)
       THEN Answer("DELETE_CREDENTIAL", [credentialId |-> credentialId],
                   [error |-> NullVaultError])
       ELSE LET index == FindIndex(Val(vault).credentials, credentialId)
            IN  IF index = 0
                THEN Answer("DELETE_CREDENTIAL",
                            [credentialId |-> credentialId],
                            [error |-> "Credential not found"])
                ELSE Mutate("DELETE_CREDENTIAL",
                            [Val(vault) EXCEPT
                                !.credentials = RemoveAt(@, index)],
                            [credentialId |-> credentialId])

UpdateCredential(credential) ==
    /\ CanReceive
    /\ IF ~SessionOpen(isUnlocked, vault)
       THEN Answer("UPDATE_CREDENTIAL", [credential |-> credential],
                   [error |-> "Vault is locked"])
       ELSE IF ~IsSome(vault)
       THEN Answer("UPDATE_CREDENTIAL", [credential |-> credential],
                   [error |-> NullVaultError])
       ELSE LET index == FindIndex(Val(vault).credentials, credential.id)
            IN  IF index = 0
                THEN Answer("UPDATE_CREDENTIAL", [credential |-> credential],
                            [error |-> "Credential not found"])
                ELSE Mutate("UPDATE_CREDENTIAL",
                            [Val(vault) EXCEPT
                                !.credentials[index] =
                                    With(credential, "modified", now)],
                            [credential |-> With(credential, "modified", now)])

\* a mutating handler from the return of storage.set to its return
MutationDone(i) ==
    /\ i \in 1..Len(handlers)
    /\ handlers[i].op \in MutatingOps
    /\ handlers[i].pc = "storing"
    /\ Settles(handlers, i)
    /\ LET h == handlers[i]
       IN  /\ last' = Event(h.op, h.out,
                  IF h.failed THEN [error |-> StorageError]
                  ELSE IF h.op = "SAVE_CREDENTIAL"
                  THEN [success |-> TRUE, credential |-> h.out.credential,
                        security |-> h.out.security]
                  ELSE [success |-> TRUE])
           /\ handlers' = Settled(Remove(handlers, i))
    /\ UNCHANGED << session, argon2Loaded, storage, timers, now, rng, nev >>

(***************************************************************************)
(* loadSettings: this.autoLockDelay = result.autoLockDelay || (5 * 60 *     *)
(* 1000), with stored what chrome.storage.local holds.                      *)
(***************************************************************************)
\* a loadSettings that takes what is stored as it is
LoadSettings_KeepsStored(stored) == stored

LoadSettings(stored) ==
    IF TruthyDelay(stored) THEN stored ELSE Some(DefaultDelay)

(***************************************************************************)
(* UPDATE_AUTO_LOCK: updateAutoLock to its await of storage.set, and from   *)
(* there to its return.  It has no try: a rejected write leaves it by the   *)
(* exception, which the message listener answers with {error}.              *)
(***************************************************************************)
NeverInput == <<"n", "e", "v", "e", "r">>

NewDelay(delay) == IF delay = NeverInput THEN None ELSE ParseInt(delay)

UpdateAutoLock(delay) ==
    /\ CanReceive
    /\ autoLockDelay' = NewDelay(delay)
    /\ \E ok \in IF nev + 1 < MaxEvents THEN BOOLEAN ELSE {TRUE} :
          /\ storage' = IF ok
                        THEN [storage EXCEPT !.autoLockDelay = NewDelay(delay)]
                        ELSE storage
          /\ handlers' = Append(handlers,
                [Handler("UPDATE_AUTO_LOCK", "storing", "", FALSE, None, None,
                         None, NoOut)
                    EXCEPT !.failed = ~ok, !.ticket = NextTicket(handlers),
                           !.unlockedAtStart = isUnlocked])
          /\ nev' = nev + 1 + Faults(ok)
    /\ UNCHANGED << vault, isUnlocked, masterPassword, autoLockTimer,
                    unlockTime, argon2Loaded, timers, now, rng, last >>

\* an updateAutoLock that restarts the timer whether the write was rejected
\* or not
UpdateAutoLockDone_RearmsAnyway(i) ==
    /\ i \in 1..Len(handlers)
    /\ handlers[i].op = "UPDATE_AUTO_LOCK"
    /\ handlers[i].pc = "storing"
    /\ Settles(handlers, i)
    /\ LET h == handlers[i]
           armed == StartAutoLockTimer(timers, autoLockTimer, autoLockDelay,
                                       unlockTime, now)
       IN  /\ handlers' = Settled(Remove(handlers, i))
           /\ last' = Event(h.op, NoArg,
                            IF h.failed THEN [error |-> StorageError]
                            ELSE [success |-> TRUE])
           /\ IF isUnlocked
              THEN /\ timers' = armed.timers
                   /\ autoLockTimer' = armed.autoLockTimer
                   /\ unlockTime' = armed.unlockTime
              ELSE UNCHANGED << autoLockTimer, unlockTime, timers >>
    /\ UNCHANGED << vault, isUnlocked, masterPassword, autoLockDelay,
                    argon2Loaded, storage, now, rng, nev >>

UpdateAutoLockDone(i) ==
    /\ i \in 1..Len(handlers)
    /\ handlers[i].op = "UPDATE_AUTO_LOCK"
    /\ handlers[i].pc = "storing"
    /\ Settles(handlers, i)
    /\ LET h == handlers[i]
           armed == StartAutoLockTimer(timers, autoLockTimer, autoLockDelay,
                                       unlockTime, now)
       IN  /\ handlers' = Settled(Remove(handlers, i))
           /\ IF h.failed
              THEN /\ last' = Event(h.op, NoArg, [error |-> StorageError])
                   /\ UNCHANGED << autoLockTimer, unlockTime, timers >>
              ELSE /\ last' = Event(h.op, NoArg, [success |-> TRUE])
                   /\ IF isUnlocked
                      THEN /\ timers' = armed.timers
                           /\ autoLockTimer' = armed.autoLockTimer
                           /\ unlockTime' = armed.unlockTime
                      ELSE UNCHANGED << autoLockTimer, unlockTime, timers >>
    /\ UNCHANGED << vault, isUnlocked, masterPassword, autoLockDelay,
                    argon2Loaded, storage, now, rng, nev >>

(***************************************************************************)
(* Initial state: the constructor has run and init() has returned, so the   *)
(* Argon2 library is loaded or not, the settings are loaded (none stored:   *)
(* the default delay) and the message listener is registered.  Storage is   *)
(* empty (no vault was ever set up), or holds the vault an earlier run of   *)
(* the first version of the extension (lines 1-511) wrote under password    *)
(* "p1": one credential, no kdf tag.                                        *)
(***************************************************************************)
\* the object the first version's encryptData returns
LegacyEnvelope(text, password, salt, iv) ==
    [encrypted |-> AesGcmEncrypt(
                       Pbkdf2DeriveKey(password, salt, OriginalIterations),
                       iv, text),
     salt |-> salt, iv |-> iv, version |-> "1.1"]

\* the vault of the first version after one saveCredential at time TickMs
LegacyVault ==
    [credentials |->
        << [id |-> << TickMs, 2 >>, name |-> <<"G", "m">>,
            domain |-> <<"g", "m">>, username |-> <<"a">>, password |-> "x",
            created |-> TickMs, modified |-> TickMs] >>,
     created |-> TickMs, version |-> "1.1"]

StoredAtStart ==
    { [vault |-> None, setupCompleted |-> FALSE, autoLockDelay |-> None],
      [vault |-> Some(LegacyEnvelope(JsonStringify(LegacyVault), "p1", 1, 2)),
       setupCompleted |-> TRUE, autoLockDelay |-> None] }

Init ==
    /\ vault = None
    /\ isUnlocked = FALSE
    /\ masterPassword = None
    /\ autoLockTimer = None
    /\ autoLockDelay = Some(DefaultDelay)
    /\ unlockTime = None
    /\ argon2Loaded \in BOOLEAN
    /\ storage \in StoredAtStart
    /\ timers = {}
    /\ now = StartTime
    /\ rng = 2
    /\ handlers = << >>
    /\ nev = 0
    /\ last = [type |-> "none", arg |-> NoArg, resp |-> NoResp,
               wasUnlocked |-> FALSE]

(***************************************************************************)
(* The specification.                                                       *)
(***************************************************************************)
Next ==
    \/ \E masterPw \in Passwords : SetupVault(masterPw)
    \/ \E masterPw \in Passwords : UnlockVault(masterPw)
    \/ LockVault
    \/ \E credential \in CredentialInputs :
          \E suffix \in SuffixChoices(vault, now) :
              SaveCredential(credential, suffix)
    \/ \E id \in Ids(vault) \cup {UnknownId} : DeleteCredential(id)
    \/ \E id \in Ids(vault) \cup {UnknownId} :
          \E credential \in UpdateInputs(id) : UpdateCredential(credential)
    \/ \E delay \in DelayInputs : UpdateAutoLock(delay)
    \/ \E i \in 1..Len(handlers) : Argon2Done(i)
    \/ \E i \in 1..Len(handlers) : Argon2Throws(i)
    \/ \E i \in 1..Len(handlers) : Pbkdf2Done(i)
    \/ \E i \in 1..Len(handlers) : SetupVaultDone(i)
    \/ \E i \in 1..Len(handlers) : UnlockVaultGot(i)
    \/ \E i \in 1..Len(handlers) : UnlockVaultDone(i)
    \/ \E i \in 1..Len(handlers) : MutationDone(i)
    \/ \E i \in 1..Len(handlers) : UpdateAutoLockDone(i)
    \/ TimerFire
    \/ Tick

Spec == Init /\ [][Next]_vars

(***************************************************************************)
(* Properties.                                                              *)
(***************************************************************************)
Locked ==
    /\ ~isUnlocked
    /\ vault = None
    /\ masterPassword = None

\* handler i is a setupVault returning from encryptData and calling
\* chrome.storage.local.set
SetupWrites(i) ==
    /\ handlers[i].op = "SETUP_VAULT"
    /\ Argon2Done(i) \/ Pbkdf2Done(i)

\* C1: a setupVault that finds an envelope persisted leaves the persisted
\* envelope as it is: whenever setupVault reaches its storage write while an
\* envelope is stored, the stored contents stay unchanged.
C1_SetupNeverOverwrites ==
    [][\A i \in 1..Len(handlers) :
          (IsSome(storage.vault) /\ SetupWrites(i)) => storage' = storage]_vars

\* C1: a setupVault answered success although an envelope was persisted
\* from the start (the one the first version wrote), which it replaced.
C1_SecondSetupSucceeded ==
    /\ last.type = "SETUP_VAULT"
    /\ Has(last.resp, "success")
    /\ IsSome(storage.vault)
    /\ Val(storage.vault).version = "2.0"
    /\ Val(storage.vault).encrypted.pt.json.credentials = << >>
    /\ nev = 1

\* C2: in every reachable state isUnlocked is true exactly when a vault is
\* held and exactly when the master password is held.
C2_UnlockedIffVaultIffPassword ==
    /\ isUnlocked <=> IsSome(vault)
    /\ isUnlocked <=> IsSome(masterPassword)

\* C2: the session was locked by LOCK_VAULT while a handler that had changed
\* the vault is still suspended.
C2_LockedWithHandlerInFlight ==
    /\ Locked
    /\ \E i \in 1..Len(handlers) :
          handlers[i].op \in MutatingOps /\ handlers[i].lockedAt # ""

\* the password the envelope was encrypted under
EnvelopePassword(encryptedObj) == encryptedObj.encrypted.key.pass

\* handler i is an unlockVault returning from decryptVault, called with a
\* password other than the one the envelope it read was encrypted under
WrongPasswordReturns(i) ==
    /\ handlers[i].op = "UNLOCK_VAULT"
    /\ handlers[i].pc = "decrypting"
    /\ EnvelopePassword(Val(handlers[i].found)) # handlers[i].pw
    /\ UnlockVaultDone(i)

\* C3: unlockVault with a password other than the one the envelope was
\* encrypted under answers {error: 'Invalid password'} without a vault and
\* leaves the session as it was; a session that was locked stays locked,
\* with no vault, no master password and no timer.
C3_WrongPasswordRejected ==
    [][\A i \in 1..Len(handlers) :
          WrongPasswordReturns(i) =>
             /\ last'.type = "UNLOCK_VAULT"
             /\ last'.resp = [error |-> "Invalid password"]
             /\ session' = session
             /\ timers' = timers
             /\ ~isUnlocked => Locked' /\ timers' = {} /\ autoLockTimer' = None
      ]_vars

\* C3: a locked session answered 'Invalid password' to an unlock with a
\* password other than the one of the stored envelope, and is locked.
C3_WrongPasswordAnswered ==
    /\ last.type = "UNLOCK_VAULT"
    /\ last.resp = [error |-> "Invalid password"]
    /\ ~last.wasUnlocked
    /\ IsSome(storage.vault)
    /\ EnvelopePassword(Val(storage.vault)) # last.arg.masterPassword
    /\ Locked
    /\ timers = {}

\* C4: lockVault, called by LOCK_VAULT or by the timer callback, leaves the
\* session locked with vault, master password, unlockTime and timer handle
\* cleared and no timer pending; LOCK_VAULT answers success; in a session
\* that is already locked it changes nothing of session, timers or storage.
C4_LockClearsAndIsIdempotent ==
    [][(LockVault \/ TimerFire) =>
          /\ Locked'
          /\ unlockTime' = None
          /\ autoLockTimer' = None
          /\ timers' = {}
          /\ LockVault => last'.resp = [success |-> TRUE]
          /\ ~isUnlocked =>
                /\ session' = session
                /\ timers' = timers
                /\ storage' = storage
      ]_vars

\* C4: LOCK_VAULT was answered in a session that was unlocked with its timer
\* pending, and the session is locked.
C4_LockedByRequest ==
    /\ last.type = "LOCK_VAULT"
    /\ last.wasUnlocked
    /\ last.resp = [success |-> TRUE]
    /\ Locked
    /\ timers = {}
    /\ IsSome(storage.vault)

\* handler i is an unlockVault returning from decryptVault, which it was
\* awaiting when LOCK_VAULT was handled, in a session that is locked, with
\* no other handler suspended
OvertakenUnlockReturns(i) ==
    /\ handlers[i].op = "UNLOCK_VAULT"
    /\ handlers[i].lockedAt = "decrypting"
    /\ Len(handlers) = 1
    /\ ~isUnlocked
    /\ UnlockVaultDone(i)

\* C5: a LOCK_VAULT handled while an earlier UNLOCK_VAULT awaits decryption
\* leaves the session locked once both have completed, as handling the two
\* one after the other in arrival order would.
C5_LockDuringUnlockLeavesLocked ==
    [][\A i \in 1..Len(handlers) : OvertakenUnlockReturns(i) => ~isUnlocked']_vars

\* the handlers between their change of this.vault and the completion of
\* their storage write
MutationsInFlight ==
    {i \in 1..Len(handlers) : handlers[i].op \in MutatingOps}

\* C6: no saveCredential, updateCredential or deleteCredential begins while
\* another is in flight: at most one is in flight at any time.
C6_MutationsSerialized ==
    Cardinality(MutationsInFlight) <= 1

\* C7: at most one timer is pending, it is the one this.autoLockTimer holds,
\* a timer is pending only while the session is unlocked (a locked session
\* has none and holds no handle), and the timer callback only ever ran in a
\* session that was unlocked.
C7_TimerOnlyWhileUnlocked ==
    /\ Cardinality(timers) <= 1
    /\ \A t \in timers : isUnlocked /\ autoLockTimer = Some(t.id)
    /\ ~isUnlocked => timers = {} /\ autoLockTimer = None
    /\ last.type = "timer" => last.wasUnlocked

\* C7: the timer callback ran and locked the session; no timer is pending.
C7_LockedByTimer ==
    /\ last.type = "timer"
    /\ last.wasUnlocked
    /\ Locked
    /\ timers = {}

(***************************************************************************)
(* The specification with the scheduling the event loop guarantees: the     *)
(* clock advances, and the callback of a timer whose delay has passed is    *)
(* run.                                                                     *)
(***************************************************************************)
FairSpec == Spec /\ WF_vars(Tick) /\ WF_vars(TimerFire)

\* the response to GET_REMAINING_TIME in the current state
RemainingNow ==
    GetRemainingTime(isUnlocked, unlockTime, autoLockDelay, now).remaining

\* the values this.unlockTime takes
UnlockTimes == {StartTime + k * TickMs : k \in 0..(MaxEvents + 1)}

\* the timer armed at time u is pending in an unlocked session
Armed(u) == isUnlocked /\ timers # {} /\ unlockTime = Some(u)

\* the timer is pending, armed with the delay the session now has, and its
\* delay has passed
Overdue ==
    /\ isUnlocked
    /\ TruthyDelay(autoLockDelay)
    /\ \E t \in timers : /\ t.deadline = Val(unlockTime) + Val(autoLockDelay)
                         /\ now >= t.deadline

\* C8 as stated: at every time at or after T0+D the session is locked.
C8_LockedFromDeadline ==
    \A t \in timers : now >= t.deadline => ~isUnlocked

\* C8 amended: the callback of the timer armed at T0 with delay D runs at a
\* time at or after T0+D, never before, and locks the session, unless a
\* lock, unlock, setup or delay change comes first; from T0+D until the
\* callback has run GET_REMAINING_TIME reports remaining zero, and in a
\* locked session it reports null.
C8_AutoLockFires ==
    /\ [](Overdue => RemainingNow = Some(0))
    /\ [](~isUnlocked => RemainingNow = None)
    /\ [][TimerFire => /\ \E t \in timers : now >= t.deadline
                       /\ now >= Val(unlockTime)
                       /\ Locked']_vars
    /\ \A u \in UnlockTimes : Armed(u) ~> (~Armed(u))

\* C8: the timer armed with the default delay ran its callback one delay
\* after the unlock, and the locked session reports remaining null.
C8_TimerLockedSession ==
    /\ last.type = "timer"
    /\ Locked
    /\ now >= StartTime + DefaultDelay
    /\ RemainingNow = None

\* a mutating request is received
MutationReceived ==
    \/ \E credential \in CredentialInputs :
          \E suffix \in SuffixChoices(vault, now) :
              SaveCredential(credential, suffix)
    \/ \E id \in Ids(vault) \cup {UnknownId} : DeleteCredential(id)
    \/ \E id \in Ids(vault) \cup {UnknownId} :
          \E credential \in UpdateInputs(id) : UpdateCredential(credential)

\* C9: a SAVE_CREDENTIAL, UPDATE_CREDENTIAL or DELETE_CREDENTIAL received in
\* a session that is not unlocked is answered {error: 'Vault is locked'} and
\* changes neither the session nor the storage, and starts no handler.
C9_LockedMutationRejected ==
    [][(~isUnlocked /\ MutationReceived) =>
          /\ last'.type \in MutatingOps
          /\ last'.resp = [error |-> "Vault is locked"]
          /\ session' = session
          /\ storage' = storage
          /\ timers' = timers
          /\ handlers' = handlers
      ]_vars

\* C9: a mutating request was answered 'Vault is locked' in a locked session
\* whose envelope is persisted.
C9_RejectedWhileLocked ==
    /\ last.type \in MutatingOps
    /\ ~last.wasUnlocked
    /\ last.resp = [error |-> "Vault is locked"]
    /\ Locked
    /\ IsSome(storage.vault)

\* the credentials of the vault the persisted envelope holds
StoredCredentials == Val(storage.vault).encrypted.pt.json.credentials

\* C10: in a session that is not unlocked getCredentials, getAllCredentials
\* and searchCredentials return {credentials: []}, whatever is persisted.
C10_LockedReadsEmpty ==
    ~isUnlocked =>
        /\ \A domain \in DomainInputs :
              GetCredentials(isUnlocked, vault, domain) = [credentials |-> << >>]
        /\ GetAllCredentials(isUnlocked, vault) = [credentials |-> << >>]
        /\ \A query \in QueryInputs :
              SearchCredentials(isUnlocked, vault, query) = [credentials |-> << >>]

\* C10: the session was locked by LOCK_VAULT while the persisted envelope
\* holds a credential that the domain and the query asked for match.
C10_LockedOverStoredCredentials ==
    /\ last.type = "LOCK_VAULT"
    /\ last.wasUnlocked
    /\ ~isUnlocked
    /\ IsSome(storage.vault)
    /\ \E k \in 1..Len(StoredCredentials) :
          /\ StoredCredentials[k].domain \in DomainInputs
          /\ \E query \in QueryInputs :
                query # << >> /\ Includes(StoredCredentials[k].domain, query)

\* the vault the persisted envelope decrypts to under password, None when
\* nothing is persisted or the decryption throws
StoredVault(password) ==
    IF IsSome(storage.vault)
    THEN DecryptVault(Val(storage.vault), password, argon2Loaded, FALSE)
    ELSE None

\* vault object v reflects the change handler h made
Reflects(h, v) ==
    LET creds == v.credentials
    IN  CASE h.op = "SAVE_CREDENTIAL" ->
                \E k \in 1..Len(creds) : creds[k] = h.out.credential
          [] h.op = "UPDATE_CREDENTIAL" ->
                \E k \in 1..Len(creds) : creds[k] = h.out.credential
          [] h.op = "DELETE_CREDENTIAL" ->
                \A k \in 1..Len(creds) : creds[k].id # h.out.credentialId

\* handler i is a mutating handler returning {success: true} while no
\* handler other than mutating ones is suspended
MutationSucceeds(i) ==
    /\ handlers[i].op \in MutatingOps
    /\ handlers[i].pc = "storing"
    /\ ~handlers[i].failed
    /\ \A j \in 1..Len(handlers) : handlers[j].op \in MutatingOps
    /\ MutationDone(i)

\* C11: when saveCredential, updateCredential or deleteCredential returns
\* success, the persisted envelope decrypts under the password the handler
\* encrypted with to a vault that reflects the handler's change.
C11_SuccessMeansPersisted ==
    [][\A i \in 1..Len(handlers) :
          MutationSucceeds(i) =>
             /\ IsSome(StoredVault(handlers[i].pw))
             /\ Reflects(handlers[i], Val(StoredVault(handlers[i].pw)))
      ]_vars

\* handler i is a setupVault whose chrome.storage.local.set, called while
\* nothing is persisted, succeeds
FirstSetupWrites(i) ==
    /\ storage.vault = None
    /\ SetupWrites(i)
    /\ ~handlers'[i].failed

\* handler i is a setupVault returning {success: true}
SetupSucceeds(i) ==
    /\ handlers[i].op = "SETUP_VAULT"
    /\ handlers[i].pc = "storing"
    /\ ~handlers[i].failed
    /\ SetupVaultDone(i)

\* C12: a setupVault from a storage without envelope writes the envelope of
\* a vault without credentials, encrypted under the given password, in a step
\* that leaves the session as it is; when it returns success the session is
\* unlocked holding that vault and that password, and with a finite delay
\* exactly one timer is pending, due one delay from now, with unlockTime now.
C12_SetupWritesThenUnlocks ==
    [][\A i \in 1..Len(handlers) :
          /\ FirstSetupWrites(i) =>
                /\ StoredVault(handlers[i].pw)' = handlers[i].data
                /\ Val(handlers[i].data).credentials = << >>
                /\ session' = session
          /\ SetupSucceeds(i) =>
                /\ isUnlocked'
                /\ vault' = handlers[i].data
                /\ Val(vault').credentials = << >>
                /\ masterPassword' = Some(handlers[i].pw)
                /\ last'.resp = [success |-> TRUE,
                                 security |-> Val(vault').security]
                /\ TruthyDelay(autoLockDelay) =>
                      /\ unlockTime' = Some(now)
                      /\ \E t \in timers' :
                            /\ timers' = {t}
                            /\ autoLockTimer' = Some(t.id)
                            /\ t.deadline = now + Val(autoLockDelay)
      ]_vars

\* C12: SETUP_VAULT was answered success; the session is unlocked with an
\* empty vault, which is what the persisted envelope decrypts to under the
\* password given, and the timer is pending.
C12_SetUpAndUnlocked ==
    /\ last.type = "SETUP_VAULT"
    /\ Has(last.resp, "success")
    /\ isUnlocked
    /\ Val(vault).credentials = << >>
    /\ masterPassword = Some(last.arg.masterPassword)
    /\ StoredVault(last.arg.masterPassword) = vault
    /\ timers # {}

\* handler i is an unlockVault, begun in an unlocked session, returning
\* from decryptVault in an unlocked session
UnlockWhileUnlockedReturns(i) ==
    /\ handlers[i].op = "UNLOCK_VAULT"
    /\ handlers[i].unlockedAtStart
    /\ isUnlocked
    /\ UnlockVaultDone(i)

\* C13: unlockVault invoked while the session is unlocked does not replace
\* the held vault or master password and does not restart the countdown:
\* unlockTime and the deadline of the pending timer stay as they are.
C13_UnlockOnlyWhenLocked ==
    [][\A i \in 1..Len(handlers) :
          UnlockWhileUnlockedReturns(i) =>
             /\ vault' = vault
             /\ masterPassword' = masterPassword
             /\ unlockTime' = unlockTime
             /\ {t.deadline : t \in timers'} = {t.deadline : t \in timers}
      ]_vars

\* the number of handlers awaiting decryptVault
Decrypting ==
    Cardinality({j \in 1..Len(handlers) : handlers[j].pc = "decrypting"})

\* handler i is an unlockVault resumed by a chrome.storage.local.get that
\* found no envelope
UnlockFindsNothing(i) ==
    /\ handlers[i].op = "UNLOCK_VAULT"
    /\ handlers[i].pc = "getting"
    /\ handlers[i].found = None
    /\ UnlockVaultGot(i)

\* C14: unlockVault with no persisted envelope answers {error: 'No vault
\* found'}, not the invalid-password error, returns at once (it awaits no
\* derivation or decryption, and draws no random value), and leaves session,
\* timers and storage unchanged.
C14_NoVaultFound ==
    [][\A i \in 1..Len(handlers) :
          UnlockFindsNothing(i) =>
             /\ last'.type = "UNLOCK_VAULT"
             /\ last'.resp = [error |-> "No vault found"]
             /\ Len(handlers') = Len(handlers) - 1
             /\ Decrypting' = Decrypting
             /\ session' = session
             /\ timers' = timers
             /\ storage' = storage
             /\ rng' = rng
      ]_vars

\* C14: UNLOCK_VAULT was answered 'No vault found' in a locked session with
\* nothing persisted.
C14_NoVaultAnswered ==
    /\ last.type = "UNLOCK_VAULT"
    /\ last.resp = [error |-> "No vault found"]
    /\ storage.vault = None
    /\ Locked
    /\ timers = {}

\* handler i is an unlockVault returning {success: true, vault}
UnlockSucceeds(i) ==
    /\ handlers[i].op = "UNLOCK_VAULT"
    /\ handlers[i].pc = "decrypting"
    /\ UnlockVaultDone(i)
    /\ Has(last'.resp, "success")

\* handler i is an updateAutoLock begun in an unlocked session and resumed
\* from chrome.storage.local.set in an unlocked session whose delay is finite
DelayChangeResumes(i) ==
    /\ handlers[i].op = "UPDATE_AUTO_LOCK"
    /\ handlers[i].unlockedAtStart
    /\ isUnlocked
    /\ TruthyDelay(autoLockDelay)
    /\ UpdateAutoLockDone(i)

\* the step cancels the pending timer and arms one new timer, due one delay
\* from now, with unlockTime now
RestartsCountdown ==
    /\ unlockTime' = Some(now)
    /\ \E t \in timers' :
          /\ timers' = {t}
          /\ t.id \notin TimerIds(timers)
          /\ autoLockTimer' = Some(t.id)
          /\ t.deadline = now + Val(autoLockDelay)

\* C15: with a finite delay, every setupVault and unlockVault that returns
\* success and every updateAutoLock handled while unlocked cancels the
\* pending timer and arms exactly one new timer, due one delay from now,
\* with unlockTime now; the timer callback runs lockVault.
C15_EveryDelayChangeRearms ==
    /\ [][\A i \in 1..Len(handlers) :
             (/\ TruthyDelay(autoLockDelay)
              /\ \/ SetupSucceeds(i)
                 \/ UnlockSucceeds(i)
                 \/ DelayChangeResumes(i))
             => RestartsCountdown]_vars
    /\ [][TimerFire => Locked' /\ timers' = {} /\ autoLockTimer' = None]_vars

\* C15: UPDATE_AUTO_LOCK was answered with an error in a session that is
\* still unlocked under the timer armed before the request.
C15_DelayChangeFailed ==
    /\ last.type = "UPDATE_AUTO_LOCK"
    /\ Has(last.resp, "error")
    /\ last.wasUnlocked
    /\ isUnlocked
    /\ TruthyDelay(autoLockDelay)
    /\ timers # {}

\* handler i is an updateAutoLock('never') begun in an unlocked session and
\* resumed from chrome.storage.local.set in an unlocked session
NeverResumes(i) ==
    /\ handlers[i].op = "UPDATE_AUTO_LOCK"
    /\ handlers[i].unlockedAtStart
    /\ isUnlocked
    /\ ~TruthyDelay(autoLockDelay)
    /\ UpdateAutoLockDone(i)

\* no updateAutoLock is suspended at its settings write
NoDelayChangePending ==
    \A j \in 1..Len(handlers) : handlers[j].op # "UPDATE_AUTO_LOCK"

\* C16: every updateAutoLock('never') handled while unlocked, and every
\* setupVault or unlockVault that returns success while the delay is
\* 'never', leaves no timer pending; no step arms a timer while the delay is
\* 'never'; and once the delay change has been answered the timer callback
\* never runs while the delay is 'never'.
C16_NeverMeansNoTimerLock ==
    /\ [][\A i \in 1..Len(handlers) :
             (\/ NeverResumes(i)
              \/ ~TruthyDelay(autoLockDelay)
                    /\ (SetupSucceeds(i) \/ UnlockSucceeds(i)))
             => timers' = {} /\ autoLockTimer' = None]_vars
    /\ [][~TruthyDelay(autoLockDelay') => timers' \subseteq timers]_vars
    /\ [][TimerFire /\ NoDelayChangePending
             => TruthyDelay(autoLockDelay)]_vars

\* C16: the timer callback has locked the session while the delay is
\* 'never' and no delay change is pending.
C16_TimerLockedUnderNever ==
    /\ last.type = "timer"
    /\ Locked
    /\ autoLockDelay = None
    /\ NoDelayChangePending

(***************************************************************************)
(* The countdown by the millisecond.  Spec moves the clock one delay at a   *)
(* time; getRemainingTime divides by 1000 and by 60, so what it returns is  *)
(* checked under a second specification that starts from the sessions       *)
(* getRemainingTime can find at time StartTime and moves the clock in steps *)
(* of half a second and of a minute: locked; unlocked at StartTime under a  *)
(* countdown; unlocked under 'never', before which a countdown ran or not;  *)
(* unlocked under 'never' and then given a finite delay whose settings      *)
(* write failed (no unlockTime).                                            *)
(***************************************************************************)
ShortDelay == 61500
MaxElapsedMs == 62000

ElapseSteps == {500, 60000}

CountdownDelays == {Some(DefaultDelay), Some(ShortDelay)}

CountdownInit ==
    /\ argon2Loaded = TRUE
    /\ storage = [vault |-> Some(LegacyEnvelope(JsonStringify(LegacyVault),
                                                "p1", 1, 2)),
                  setupCompleted |-> TRUE, autoLockDelay |-> None]
    /\ now = StartTime
    /\ rng = 2
    /\ handlers = << >>
    /\ nev = 0
    /\ last = [type |-> "none", arg |-> NoArg, resp |-> NoResp,
               wasUnlocked |-> FALSE]
    /\ \/ /\ vault = None /\ isUnlocked = FALSE /\ masterPassword = None
          /\ autoLockTimer = None /\ unlockTime = None /\ timers = {}
          /\ autoLockDelay \in CountdownDelays \cup {None}
       \/ /\ vault = Some(LegacyVault) /\ isUnlocked = TRUE
          /\ masterPassword = Some("p1")
          /\ \/ /\ autoLockDelay \in CountdownDelays
                /\ unlockTime = Some(StartTime)
                /\ autoLockTimer = Some(1)
                /\ timers = {[id |-> 1,
                              deadline |-> StartTime + Val(autoLockDelay)]}
             \/ /\ autoLockDelay = None
                /\ unlockTime \in {None, Some(StartTime)}
                /\ autoLockTimer = None /\ timers = {}
             \/ /\ autoLockDelay \in CountdownDelays
                /\ unlockTime = None
                /\ autoLockTimer = None /\ timers = {}

\* Date.now() moves on by ms
Elapse(ms) ==
    /\ now + ms <= StartTime + MaxElapsedMs
    /\ now' = now + ms
    /\ UNCHANGED << session, argon2Loaded, storage, timers, rng, handlers,
                    nev, last >>

\* GET_REMAINING_TIME: handleMessage returns this.getRemainingTime()
GetRemainingTimeMsg ==
    /\ last' = Event("GET_REMAINING_TIME", NoArg,
                     GetRemainingTime(isUnlocked, unlockTime, autoLockDelay,
                                      now))
    /\ UNCHANGED << session, argon2Loaded, storage, timers, now, rng,
                    handlers, nev >>

CountdownNext ==
    \/ \E ms \in ElapseSteps : Elapse(ms)
    \/ GetRemainingTimeMsg
    \/ TimerFire

CountdownSpec == CountdownInit /\ [][CountdownNext]_vars

\* C17: GET_REMAINING_TIME changes nothing but the response; in an unlocked
\* session with a finite delay and an unlockTime the response has
\* remaining = max(0, delay - (now - unlockTime)) >= 0, totalSeconds =
\* floor(remaining / 1000) = remainingMinutes * 60 + remainingSeconds and
\* 0 <= remainingSeconds < 60; in a locked session or under 'never' it is
\* {remaining: null}.
C17_RemainingTime ==
    [][GetRemainingTimeMsg =>
        LET r == last'.resp
        IN  /\ session' = session /\ timers' = timers /\ storage' = storage
            /\ handlers' = handlers /\ now' = now
            /\ IF isUnlocked /\ IsSome(unlockTime) /\ IsSome(autoLockDelay)
               THEN LET left == Val(autoLockDelay) - (now - Val(unlockTime))
                        ms == Val(r.remaining)
                    IN  /\ ms = IF left > 0 THEN left ELSE 0
                        /\ ms >= 0
                        /\ r.totalSeconds * 1000 <= ms
                        /\ ms < (r.totalSeconds + 1) * 1000
                        /\ r.totalSeconds =
                              r.remainingMinutes * 60 + r.remainingSeconds
                        /\ 0 <= r.remainingSeconds
                        /\ r.remainingSeconds < 60
               ELSE r = [remaining |-> None]]_vars

\* C17: GET_REMAINING_TIME was answered with remaining 0 past the deadline
\* of an unlocked session whose timer callback has not run.
C17_ClampedAtZero ==
    /\ last.type = "GET_REMAINING_TIME"
    /\ last.wasUnlocked
    /\ isUnlocked
    /\ IsSome(unlockTime)
    /\ IsSome(autoLockDelay)
    /\ now > Val(unlockTime) + Val(autoLockDelay)
    /\ last.resp.remaining = Some(0)
    /\ last.resp.totalSeconds = 0

\* handler i's encryptData returns and its envelope is written
EncryptionWrites(i) ==
    /\ handlers[i].pc \in {"argon2", "pbkdf2"}
    /\ Argon2Done(i) \/ Pbkdf2Done(i)
    /\ ~handlers'[i].failed

\* C18: the envelope encryptData(V, P) returns, of either KDF family,
\* decrypts under P to V, the contents of the data argument when it was
\* stringified, credentials' ids and timestamps included; and an unlockVault
\* that returns success holds exactly the vault that was stringified into
\* the envelope it read from storage.
C18_RoundTrip ==
    /\ [][\A i \in 1..Len(handlers) :
             EncryptionWrites(i) =>
                DecryptVault(Val(storage'.vault), handlers[i].pw,
                             argon2Loaded, FALSE)
                   = Some(JsonParse(Val(handlers[i].text)))]_vars
    /\ [][\A i \in 1..Len(handlers) :
             UnlockSucceeds(i) =>
                /\ vault' = Some(JsonParse(
                                Val(handlers[i].found).encrypted.pt))
                /\ last'.resp.vault = Val(vault')]_vars

\* C18: after a setup wrote a version 2.0 envelope the session was locked,
\* and an unlock has answered success with the vault stored.
C18_UnlockedAgain ==
    /\ last.type = "UNLOCK_VAULT"
    /\ Has(last.resp, "success")
    /\ ~last.wasUnlocked
    /\ isUnlocked
    /\ IsSome(storage.vault)
    /\ Has(Val(storage.vault), "kdf")
    /\ vault = Some(JsonParse(Val(storage.vault).encrypted.pt))
    /\ Val(vault).version = "2.0"

\* the values crypto.getRandomValues has returned so far, the salt and nonce
\* of the envelope found at the start included
Drawn == 1..rng

\* C19: the salt and the nonce of every envelope written are values drawn
\* during that encryption call, which no earlier call drew: they differ from
\* those of the envelope replaced and of every envelope written before,
\* whatever the vault contents and the password.
C19_FreshSaltAndNonce ==
    /\ [][\A i \in 1..Len(handlers) :
             EncryptionWrites(i) =>
                LET e == Val(storage'.vault)
                IN  /\ e.salt \notin Drawn /\ e.iv \notin Drawn
                    /\ e.salt \in Drawn' /\ e.iv \in Drawn'
                    /\ IsSome(storage.vault) =>
                          /\ e.salt # Val(storage.vault).salt
                          /\ e.iv # Val(storage.vault).iv]_vars
    /\ [][Drawn \subseteq Drawn']_vars
    /\ [](IsSome(storage.vault) =>
             Val(storage.vault).salt \in Drawn /\ Val(storage.vault).iv \in Drawn)

\* C19: two setups with the same password and the same new vault have both
\* written their envelopes.
C19_SameVaultWrittenTwice ==
    \E i, j \in 1..Len(handlers) :
        /\ i < j
        /\ handlers[i].op = "SETUP_VAULT" /\ handlers[j].op = "SETUP_VAULT"
        /\ handlers[i].pc = "storing" /\ handlers[j].pc = "storing"
        /\ ~handlers[i].failed /\ ~handlers[j].failed
        /\ handlers[i].pw = handlers[j].pw
        /\ handlers[i].data = handlers[j].data
        /\ IsSome(storage.vault)
        /\ Val(storage.vault).salt > 4

\* handler i is an unlockVault whose decryption of an envelope without kdf
\* tag, written by the first version's encryptData under the password the
\* handler was given, completes
LegacyUnlockReturns(i) ==
    /\ handlers[i].op = "UNLOCK_VAULT"
    /\ handlers[i].pc = "decrypting"
    /\ IsSome(handlers[i].found)
    /\ ~Has(Val(handlers[i].found), "kdf")
    /\ Val(handlers[i].found).encrypted.key =
          Pbkdf2DeriveKey(handlers[i].pw, Val(handlers[i].found).salt,
                          OriginalIterations)
    /\ UnlockVaultDone(i)

\* C20: an envelope without kdf tag written by the first version's
\* encryptData (PBKDF2-SHA-256, 100000 iterations, AES-GCM) is decrypted by
\* decryptVault, whether the Argon2 library is loaded or not, and an unlock
\* with the password it was written under answers success with the vault
\* that was encrypted and leaves the session unlocked with it.
C20_LegacyEnvelopeUnlocks ==
    /\ [](\A i \in 1..Len(handlers) :
             (/\ handlers[i].op = "UNLOCK_VAULT"
              /\ IsSome(handlers[i].found)
              /\ ~Has(Val(handlers[i].found), "kdf"))
             => DecryptVault(Val(handlers[i].found), "p1", argon2Loaded, FALSE)
                   = Some(LegacyVault))
    /\ [][\A i \in 1..Len(handlers) :
             LegacyUnlockReturns(i) =>
                /\ Has(last'.resp, "success")
                /\ last'.resp.vault =
                      JsonParse(Val(handlers[i].found).encrypted.pt)
                /\ vault' = Some(last'.resp.vault)
                /\ masterPassword' = Some(handlers[i].pw)
                /\ isUnlocked']_vars

\* C20: the envelope of the first version is in storage and an unlock has
\* answered success with its vault.
C20_LegacyVaultUnlocked ==
    /\ last.type = "UNLOCK_VAULT"
    /\ Has(last.resp, "success")
    /\ isUnlocked
    /\ IsSome(storage.vault)
    /\ ~Has(Val(storage.vault), "kdf")
    /\ Val(storage.vault).version = "1.1"
    /\ vault = Some(LegacyVault)
    /\ Len(LegacyVault.credentials) > 0

(***************************************************************************)
(* The codec by itself.  In Spec every envelope of version 2.0 is written   *)
(* with the parameters of this build, so a decryption that used the build's *)
(* parameters instead of the recorded ones could not be told from the       *)
(* code's.  CodecSpec starts with an envelope in storage that was written   *)
(* by the first version, by this build, or by a build of version 2.0 whose  *)
(* parameters were stronger, and calls encryptData (followed, as in every   *)
(* caller, by storage.set of its result) and decryptVault on what is        *)
(* stored, each run to its return.                                          *)
(***************************************************************************)
MaxDraws == 6

\* the envelopes encryptDataWithArgon2 and encryptDataWithEnhancedPBKDF2
\* return in a build with argon2Params {time: 3, mem: 65536} and 600000
\* iterations
StrongerArgon2Envelope(text, password, salt, iv) ==
    [Argon2Envelope(text, password, salt, iv) EXCEPT
        !.encrypted.key.time = 3, !.encrypted.key.mem = 65536,
        !.kdfParams.time = 3, !.kdfParams.memory = 65536]

StrongerPbkdf2Envelope(text, password, salt, iv) ==
    [Pbkdf2Envelope(text, password, salt, iv) EXCEPT
        !.encrypted.key.iterations = 600000,
        !.kdfParams.iterations = 600000]

StoredEnvelopes ==
    LET text == JsonStringify(LegacyVault)
    IN  { LegacyEnvelope(text, "p1", 1, 2),
          Argon2Envelope(text, "p1", 1, 2),
          Pbkdf2Envelope(text, "p1", 1, 2),
          StrongerArgon2Envelope(text, "p1", 1, 2),
          StrongerPbkdf2Envelope(text, "p1", 1, 2) }

\* what encryptData(data, password) returns: hashOk tells whether
\* argon2.hash returns
EncryptData(data, password, loaded, hashOk, salt, iv) ==
    IF loaded /\ hashOk
    THEN Argon2Envelope(JsonStringify(data), password, salt, iv)
    ELSE Pbkdf2Envelope(JsonStringify(data), password, salt, iv)

CodecInit ==
    /\ vault = None /\ isUnlocked = FALSE /\ masterPassword = None
    /\ autoLockTimer = None /\ unlockTime = None /\ timers = {}
    /\ autoLockDelay = Some(DefaultDelay)
    /\ argon2Loaded \in BOOLEAN
    /\ \E e \in StoredEnvelopes :
          storage = [vault |-> Some(e), setupCompleted |-> TRUE,
                     autoLockDelay |-> None]
    /\ now = StartTime
    /\ rng = 2
    /\ handlers = << >>
    /\ nev = 0
    /\ last = [type |-> "none", arg |-> NoArg, resp |-> NoResp,
               wasUnlocked |-> FALSE]

\* encryptData(data, password) and chrome.storage.local.set({vault: ...})
EncryptDataCall(data, password, hashOk) ==
    /\ rng + 2 <= MaxDraws
    /\ LET encrypted == EncryptData(data, password, argon2Loaded, hashOk,
                                    rng + 1, rng + 2)
       IN  /\ storage' = [storage EXCEPT !.vault = Some(encrypted)]
           /\ last' = Event("encryptData",
                            [masterPassword |-> password,
                             hashThrows |-> ~hashOk],
                            [kdf |-> encrypted.kdf])
    /\ rng' = rng + 2
    /\ UNCHANGED << session, argon2Loaded, timers, now, handlers, nev >>

\* decryptVault(result.vault, password), with what it returns or that it
\* threw
DecryptVaultCall(password, hashOk) ==
    /\ IsSome(storage.vault)
    /\ LET decrypted == DecryptVault(Val(storage.vault), password,
                                     argon2Loaded, ~hashOk)
       IN  last' = Event("decryptVault",
                         [masterPassword |-> password, hashThrows |-> ~hashOk],
                         IF IsSome(decrypted)
                         THEN [vault |-> Val(decrypted)]
                         ELSE [thrown |-> TRUE])
    /\ UNCHANGED << session, argon2Loaded, storage, timers, now, rng,
                    handlers, nev >>

CodecNext ==
    \/ \E data \in {LegacyVault, NewVault(StartTime, argon2Loaded)} :
          \E password \in Passwords : \E hashOk \in BOOLEAN :
              EncryptDataCall(data, password, hashOk)
    \/ \E password \in Passwords : \E hashOk \in BOOLEAN :
          DecryptVaultCall(password, hashOk)

CodecSpec == CodecInit /\ [][CodecNext]_vars

\* the envelope in storage
Stored == Val(storage.vault)

\* the key derived from password with the family and the parameters that
\* envelope e records
RecordedKey(e, password) ==
    IF e.kdf = "argon2id"
    THEN Argon2Hash(password, e.salt, e.kdfParams.time, e.kdfParams.memory,
                    e.kdfParams.parallelism, e.kdfParams.hashLen)
    ELSE Pbkdf2DeriveKey(password, e.salt, e.kdfParams.iterations)

\* C21: every envelope with a kdf tag was encrypted under the key that the
\* recorded family derives with the recorded parameters, and decryptVault
\* returns the vault exactly when the key so derived from the password it
\* is given is the envelope's key (and, for argon2id, the library is loaded
\* and argon2.hash returns): it derives with nothing but what is recorded.
C21_RecordedKdfIsUsed ==
    /\ []((IsSome(storage.vault) /\ Has(Stored, "kdf")) =>
             /\ Stored.kdf \in {"argon2id", "enhanced-pbkdf2"}
             /\ Stored.encrypted.key =
                   RecordedKey(Stored, Stored.encrypted.key.pass))
    /\ [][(last'.type = "decryptVault" /\ last' # last
              /\ Has(Stored, "kdf")) =>
             (Has(last'.resp, "vault") <=>
                /\ RecordedKey(Stored, last'.arg.masterPassword)
                      = Stored.encrypted.key
                /\ Stored.kdf = "argon2id" =>
                      argon2Loaded /\ ~last'.arg.hashThrows)]_vars

\* C21: decryptVault has returned the vault of an argon2id envelope whose
\* recorded parameters are not those of this build.
C21_OtherParametersDecrypted ==
    /\ last.type = "decryptVault"
    /\ Has(last.resp, "vault")
    /\ IsSome(storage.vault)
    /\ Has(Stored, "kdf")
    /\ Stored.kdf = "argon2id"
    /\ Stored.kdfParams.time # Argon2Time
    /\ last.resp.vault = LegacyVault

\* handler i's encryptDataWithEnhancedPBKDF2 returns and its envelope is
\* written
FallbackWrites(i) ==
    /\ handlers[i].pc = "pbkdf2"
    /\ Pbkdf2Done(i)
    /\ ~handlers'[i].failed

\* C22: without the Argon2 library no handler awaits argon2.hash; when
\* argon2.hash throws during an encryption the handler answers nothing,
\* changes nothing and goes on to the enhanced PBKDF2 derivation; and the
\* envelope that derivation leads to is tagged enhanced-pbkdf2 with 250000
\* iterations, which is what its key was derived with.
C22_FallsBackToPbkdf2 ==
    /\ [](\A i \in 1..Len(handlers) :
             handlers[i].pc = "argon2" => argon2Loaded)
    /\ [][\A i \in 1..Len(handlers) :
             (handlers[i].pc = "argon2" /\ Argon2Throws(i)) =>
                /\ handlers'[i].pc = "pbkdf2"
                /\ Len(handlers') = Len(handlers)
                /\ last' = last /\ session' = session
                /\ storage' = storage]_vars
    /\ [][\A i \in 1..Len(handlers) :
             FallbackWrites(i) =>
                LET e == Val(storage'.vault)
                IN  /\ e.kdf = "enhanced-pbkdf2"
                    /\ e.kdfParams = [iterations |-> 250000]
                    /\ e.encrypted.key =
                          Pbkdf2DeriveKey(handlers[i].pw, e.salt, 250000)
                    /\ e.encrypted.pt = Val(handlers[i].text)]_vars

\* C22: with the Argon2 library loaded a setup has answered success and the
\* envelope it wrote is tagged enhanced-pbkdf2: argon2.hash threw.
C22_FellBackAfterThrow ==
    /\ argon2Loaded
    /\ last.type = "SETUP_VAULT"
    /\ Has(last.resp, "success")
    /\ isUnlocked
    /\ IsSome(storage.vault)
    /\ Has(Stored, "kdf")
    /\ Stored.kdf = "enhanced-pbkdf2"
    /\ Stored.encrypted.key.pass = last.arg.masterPassword

\* handler i is an unlockVault of an argon2id envelope whose key derivation
\* cannot be performed: the library is not loaded, or argon2.hash throws
DerivationFails(i) ==
    /\ handlers[i].op = "UNLOCK_VAULT"
    /\ IsSome(handlers[i].found)
    /\ Has(Val(handlers[i].found), "kdf")
    /\ Val(handlers[i].found).kdf = "argon2id"
    /\ \/ /\ handlers[i].pc = "getting"
          /\ ~argon2Loaded
          /\ UnlockVaultGot(i)
       \/ /\ handlers[i].pc = "decrypting"
          /\ UnlockVaultDone(i)
          /\ nev' = nev + 1

\* C23: an unlockVault whose key derivation cannot be performed writes
\* nothing, leaves the session as it was and answers an error other than
\* the one a wrong password gets.
C23_DerivationErrorDistinct ==
    [][\A i \in 1..Len(handlers) :
          DerivationFails(i) =>
             /\ session' = session /\ timers' = timers
             /\ storage' = storage
             /\ Has(last'.resp, "error")
             /\ last'.resp.error # "Invalid password"]_vars

\* C23: an unlock with "p1", the password the stored argon2id envelope was
\* written under and the password of the envelope found at the start, has
\* been answered 'Invalid password'; one envelope only was ever written, so
\* no envelope the unlock can have read has another password.
C23_RightPasswordCalledInvalid ==
    /\ rng = 4
    /\ last.type = "UNLOCK_VAULT"
    /\ last.resp = [error |-> "Invalid password"]
    /\ last.arg.masterPassword = "p1"
    /\ IsSome(storage.vault)
    /\ Has(Stored, "kdf")
    /\ Stored.kdf = "argon2id"
    /\ Stored.encrypted.key.pass = last.arg.masterPassword

\* the algorithm encryptData prefers in this run of the background
PreferredKdf == IF argon2Loaded THEN "argon2id" ELSE "enhanced-pbkdf2"

\* handler i is a save, update or delete whose envelope replaces one
\* without kdf tag or with the fallback tag
UpgradeWrites(i) ==
    /\ handlers[i].op \in MutatingOps
    /\ IsSome(storage.vault)
    /\ ~Has(Stored, "kdf") \/ Stored.kdf = "enhanced-pbkdf2"
    /\ EncryptionWrites(i)

\* no step of an unlockVault changes what is stored
UnlockWritesNothing ==
    [][(\/ \E masterPw \in Passwords : UnlockVault(masterPw)
        \/ \E i \in 1..Len(handlers) : UnlockVaultGot(i) \/ UnlockVaultDone(i))
       => storage' = storage]_vars

\* C24 as stated: no step of an unlockVault changes what is stored, and
\* the envelope a save, update or delete writes over a legacy or fallback
\* envelope is tagged argon2id when the Argon2 library is loaded, otherwise
\* enhanced-pbkdf2.
C24_UpgradesToPreferred ==
    /\ UnlockWritesNothing
    /\ [][\A i \in 1..Len(handlers) :
             UpgradeWrites(i) =>
                /\ Has(Val(storage'.vault), "kdf")
                /\ Val(storage'.vault).kdf = PreferredKdf]_vars

\* C24 amended: no step of an unlockVault changes what is stored, and the
\* envelope a save, update or delete writes over a legacy or fallback
\* envelope has version 2.0 and is tagged argon2id when the Argon2 library
\* is loaded and argon2.hash returned in that encryption, otherwise
\* enhanced-pbkdf2.
C24_UpgradesOnWrite ==
    /\ UnlockWritesNothing
    /\ [][\A i \in 1..Len(handlers) :
             UpgradeWrites(i) =>
                /\ Has(Val(storage'.vault), "kdf")
                /\ Val(storage'.vault).version = "2.0"
                /\ Val(storage'.vault).kdf =
                      IF argon2Loaded /\ handlers[i].pc = "argon2"
                      THEN "argon2id" ELSE "enhanced-pbkdf2"]_vars

\* C24: after an unlock of the first version's envelope a save has answered
\* success, and the envelope stored is tagged argon2id and holds the old
\* credential and the new one.
C24_LegacyVaultUpgraded ==
    /\ last.type = "SAVE_CREDENTIAL"
    /\ Has(last.resp, "success")
    /\ IsSome(storage.vault)
    /\ Has(Stored, "kdf")
    /\ Stored.kdf = "argon2id"
    /\ Len(JsonParse(Stored.encrypted.pt).credentials) = 2
    /\ JsonParse(Stored.encrypted.pt).version = "1.1"

\* the fields of the objects encryptData and the first version's encryptData
\* return (encryptionTime, a duration, left out)
EnvelopeFields == {"encrypted", "salt", "iv", "version", "kdf", "kdfParams"}

\* e is an envelope: its encrypted field is the output of AES-GCM under a
\* key derived by a KDF, and its other fields hold the salt, the nonce, the
\* version and the KDF's name and parameters
IsEnvelope(e) ==
    /\ DOMAIN e \subseteq EnvelopeFields
    /\ {"encrypted", "salt", "iv", "version"} \subseteq DOMAIN e
    /\ DOMAIN e.encrypted = {"key", "iv", "pt"}
    /\ e.encrypted.key.alg \in {"argon2id", "PBKDF2-SHA-256"}
    /\ e.salt \in Nat /\ e.iv \in Nat
    /\ e.version \in {"1.1", "2.0"}
    /\ Has(e, "kdf") =>
          /\ e.kdf \in {"argon2id", "enhanced-pbkdf2"}
          /\ \A f \in DOMAIN e.kdfParams : e.kdfParams[f] \in Nat

\* C25: chrome.storage.local holds nothing but the vault envelope, the
\* setupCompleted flag and the auto-lock delay; the master password and the
\* vault's contents are in it only as key and plaintext of the AES-GCM
\* ciphertext inside the envelope.
C25_OnlyTheEnvelopeIsStored ==
    /\ DOMAIN storage = {"vault", "setupCompleted", "autoLockDelay"}
    /\ storage.setupCompleted \in BOOLEAN
    /\ IsSome(storage.autoLockDelay) => Val(storage.autoLockDelay) \in Nat
    /\ IsSome(storage.vault) => IsEnvelope(Stored)

\* C25: the session holds the master password and a vault with a
\* credential's password, a save has been answered success, and what is
\* stored is a version 2.0 envelope of that vault.
C25_SecretsHeldEnvelopeStored ==
    /\ isUnlocked
    /\ IsSome(masterPassword)
    /\ IsSome(vault)
    /\ Len(Val(vault).credentials) > 0
    /\ last.type = "SAVE_CREDENTIAL"
    /\ Has(last.resp, "success")
    /\ IsSome(storage.vault)
    /\ Has(Stored, "kdf")
    /\ Stored.encrypted.key.pass = Val(masterPassword)
    /\ JsonParse(Stored.encrypted.pt) = Val(vault)

\* the ids of the credentials of vault v, in order
IdsOf(v) == [k \in 1..Len(v.credentials) |-> v.credentials[k].id]

\* SAVE_CREDENTIAL is handled in an unlocked session: the credential the
\* step appends to this.vault.credentials
SaveAppends ==
    /\ isUnlocked /\ IsSome(vault)
    /\ vault' # vault /\ IsSome(vault')
    /\ Len(Val(vault').credentials) = Len(Val(vault).credentials) + 1

\* C26: the credential saveCredential appends has an id that no credential
\* already in the vault has, and in every unlocked state the ids of the
\* vault's credentials are pairwise distinct.
C26_IdsDistinct ==
    /\ [][SaveAppends =>
             LET new == Val(vault').credentials[Len(Val(vault').credentials)]
             IN  \A k \in 1..Len(Val(vault).credentials) :
                    Val(vault).credentials[k].id # new.id]_vars
    /\ []((isUnlocked /\ IsSome(vault)) =>
             \A j, k \in 1..Len(Val(vault).credentials) :
                j # k => IdsOf(Val(vault))[j] # IdsOf(Val(vault))[k])

\* C26: two credentials of the vault of an unlocked session have one id.
C26_TwoCredentialsOneId ==
    /\ isUnlocked
    /\ IsSome(vault)
    /\ \E j, k \in 1..Len(Val(vault).credentials) :
          j < k /\ IdsOf(Val(vault))[j] = IdsOf(Val(vault))[k]

\* credential c has both timestamps, in order
Dated(c) ==
    /\ Has(c, "created") /\ Has(c, "modified")
    /\ c.created <= c.modified

\* C27: the credential saveCredential appends has created = modified, and
\* every credential of the vault has created <= modified.
C27_CreatedBeforeModified ==
    /\ [][SaveAppends =>
             LET new == Val(vault').credentials[Len(Val(vault').credentials)]
             IN  Dated(new) /\ new.created = new.modified]_vars
    /\ [](IsSome(vault) =>
             \A k \in 1..Len(Val(vault).credentials) :
                Dated(Val(vault).credentials[k]))

\* C27: an update has been answered success and the vault of the unlocked
\* session holds a credential without a created timestamp.
C27_CredentialWithoutCreated ==
    /\ isUnlocked
    /\ IsSome(vault)
    /\ last.type = "UPDATE_CREDENTIAL"
    /\ Has(last.resp, "success")
    /\ \E k \in 1..Len(Val(vault).credentials) :
          ~Has(Val(vault).credentials[k], "created")

\* UPDATE_CREDENTIAL is handled and finds the id: the step replaces one
\* credential of this.vault and enters encryptData
UpdateReplaces ==
    /\ isUnlocked /\ IsSome(vault) /\ IsSome(vault')
    /\ Len(handlers') = Len(handlers) + 1
    /\ handlers'[Len(handlers')].op = "UPDATE_CREDENTIAL"

\* the credential the caller sent with the update handled in this step
Supplied == handlers'[Len(handlers')].out.credential

\* new is old with the fields of the object sent merged in and modified set
\* to t
Merged(old, sent, new, t) ==
    /\ \A f \in DOMAIN old \ DOMAIN sent : Has(new, f) /\ new[f] = old[f]
    /\ \A f \in DOMAIN sent \ {"id", "created", "modified"} :
          Has(new, f) /\ new[f] = sent[f]
    /\ new.id = old.id
    /\ Has(old, "created") => Has(new, "created") /\ new.created = old.created
    /\ Has(new, "modified") /\ new.modified = t

\* C28: updateCredential with an id of the vault merges the fields sent
\* into the stored credential (fields not sent keep their values, id and
\* created unchanged, modified now) and leaves the other credentials alone;
\* with an unknown id it answers 'Credential not found' and changes
\* neither the vault nor what is stored.
C28_UpdateMerges ==
    /\ [][UpdateReplaces =>
             LET index == FindIndex(Val(vault).credentials, Supplied.id)
             IN  /\ index # 0
                 /\ Len(Val(vault').credentials) = Len(Val(vault).credentials)
                 /\ \A k \in 1..Len(Val(vault).credentials) :
                       IF k = index
                       THEN Merged(Val(vault).credentials[k], Supplied,
                                   Val(vault').credentials[k], now)
                       ELSE Val(vault').credentials[k]
                               = Val(vault).credentials[k]]_vars
    /\ [][(last' # last /\ last'.type = "UPDATE_CREDENTIAL"
              /\ last'.resp = [error |-> "Credential not found"]) =>
             /\ vault' = vault /\ storage' = storage
             /\ handlers' = handlers
             /\ last'.arg.credential.id \notin Ids(vault)]_vars

\* C28: an update that sent the id and a password has been answered
\* success, and the credential of that id has lost its name.
C28_FieldsLost ==
    /\ isUnlocked
    /\ IsSome(vault)
    /\ last.type = "UPDATE_CREDENTIAL"
    /\ Has(last.resp, "success")
    /\ \E k \in 1..Len(Val(vault).credentials) :
          /\ Val(vault).credentials[k].id = last.arg.credential.id
          /\ ~Has(Val(vault).credentials[k], "name")

\* DELETE_CREDENTIAL is handled and finds the id: the step changes
\* this.vault and enters encryptData
DeleteRemoves ==
    /\ isUnlocked /\ IsSome(vault) /\ IsSome(vault')
    /\ Len(handlers') = Len(handlers) + 1
    /\ handlers'[Len(handlers')].op = "DELETE_CREDENTIAL"

\* the id sent with the delete handled in this step
DeletedId == handlers'[Len(handlers')].out.credentialId

\* the number of credentials of creds with this id
Occurrences(creds, id) ==
    Cardinality({k \in 1..Len(creds) : creds[k].id = id})

\* C29: deleteCredential with an id of the vault removes the first
\* credential with that id and nothing else, the others staying as they are
\* and in their order; the id having been that of one credential, no
\* credential of the vault has it afterwards, getAllCredentials returns none
\* with it and findIndex finds none, so that a second delete is answered
\* 'Credential not found'.  A delete answered 'Credential not found' changes
\* neither the vault nor what is stored.
C29_DeleteRemovesExactlyOne ==
    /\ [][DeleteRemoves =>
             LET old == Val(vault).credentials
                 new == Val(vault').credentials
                 index == FindIndex(old, DeletedId)
             IN  /\ index # 0
                 /\ Len(new) = Len(old) - 1
                 /\ \A k \in 1..Len(new) :
                       new[k] = IF k < index THEN old[k] ELSE old[k + 1]
                 /\ [Val(vault') EXCEPT !.credentials = old] = Val(vault)
                 /\ Occurrences(old, DeletedId) = 1 =>
                       /\ DeletedId \notin Ids(vault')
                       /\ LET all == GetAllCredentials(isUnlocked', vault')
                                         .credentials
                          IN  \A k \in 1..Len(all) : all[k].id # DeletedId
                       /\ FindIndex(new, DeletedId) = 0]_vars
    /\ [][(last' # last /\ last'.type = "DELETE_CREDENTIAL"
              /\ last'.resp = [error |-> "Credential not found"]) =>
             /\ vault' = vault /\ storage' = storage
             /\ handlers' = handlers
             /\ last'.arg.credentialId \notin Ids(vault)]_vars

\* C29: the first of two credentials was deleted with success, and both
\* the vault of the session and the vault stored hold the other one only.
C29_FirstOfTwoDeleted ==
    /\ isUnlocked
    /\ IsSome(vault)
    /\ last.type = "DELETE_CREDENTIAL"
    /\ Has(last.resp, "success")
    /\ last.arg.credentialId = LegacyVault.credentials[1].id
    /\ Len(Val(vault).credentials) = 1
    /\ last.arg.credentialId \notin Ids(vault)
    /\ IsSome(storage.vault)
    /\ JsonParse(Stored.encrypted.pt) = Val(vault)

\* handler i is a save, update or delete whose encryptData returns and
\* whose chrome.storage.local.set is rejected
MutationWriteFails(i) ==
    /\ handlers[i].op \in MutatingOps
    /\ handlers[i].pc \in {"argon2", "pbkdf2"}
    /\ Argon2Done(i) \/ Pbkdf2Done(i)
    /\ nev' = nev + 1

\* handler i is a save, update or delete resumed by the rejection
MutationFails(i) ==
    /\ handlers[i].op \in MutatingOps
    /\ handlers[i].pc = "storing"
    /\ handlers[i].failed
    /\ MutationDone(i)

\* C30: a rejected storage write of saveCredential, updateCredential or
\* deleteCredential leaves what is stored as it was; the handler then
\* answers an error result and no success; and neither step changes the
\* vault the session holds: the mutation made before the write stays.
C30_FailedWriteKeepsMutation ==
    /\ [][\A i \in 1..Len(handlers) :
             MutationWriteFails(i) =>
                /\ storage' = storage
                /\ session' = session
                /\ handlers'[i].failed]_vars
    /\ [][\A i \in 1..Len(handlers) :
             MutationFails(i) =>
                /\ last'.type = handlers[i].op
                /\ last'.resp = [error |-> StorageError]
                /\ storage' = storage
                /\ session' = session]_vars

\* C30: a save has been answered with the error of the rejected write; the
\* session is unlocked and its vault holds the credential, the vault
\* stored does not.
C30_MemoryAheadOfStorage ==
    /\ last.type = "SAVE_CREDENTIAL"
    /\ last.resp = [error |-> StorageError]
    /\ isUnlocked
    /\ IsSome(vault)
    /\ last.arg.credential.id \in Ids(vault)
    /\ IsSome(storage.vault)
    /\ last.arg.credential.id \notin Ids(Some(JsonParse(Stored.encrypted.pt)))

(***************************************************************************)
(* C31                                                                      *)
(***************************************************************************)
\* C31: the security value SETUP_VAULT returns and the security tag of the
\* vault name the scheme protecting it: when the envelope of a setupVault
\* is written, the security value the handler will return equals the
\* envelope's kdf tag, and when the envelope of a setupVault or of a
\* saveCredential is written, the security tag of the vault encrypted in it,
\* where it has one, equals the envelope's kdf tag.
C31_SecurityNamesScheme ==
    [][\A i \in 1..Len(handlers) :
          (EncryptionWrites(i)
             /\ handlers[i].op \in {"SETUP_VAULT", "SAVE_CREDENTIAL"}) =>
             LET e == Val(storage'.vault)
                 v == JsonParse(e.encrypted.pt)
             IN  /\ handlers[i].op = "SETUP_VAULT" =>
                       handlers[i].out.security = e.kdf
                 /\ Has(v, "security") => v.security = e.kdf]_vars

\* C31: with the Argon2 library loaded a setup has answered success with
\* security argon2id, the vault in memory is tagged argon2id, and the
\* envelope persisted is the one that setup wrote, tagged enhanced-pbkdf2.
C31_TaggedArgon2StoredPbkdf2 ==
    /\ last.type = "SETUP_VAULT"
    /\ Has(last.resp, "success")
    /\ last.resp.security = "argon2id"
    /\ isUnlocked
    /\ Val(vault).security = "argon2id"
    /\ IsSome(storage.vault)
    /\ Has(Stored, "kdf")
    /\ Stored.kdf = "enhanced-pbkdf2"
    /\ JsonParse(Stored.encrypted.pt) = Val(vault)

(***************************************************************************)
(* The listing handlers.  Spec saves two kinds of credential; what          *)
(* getCredentials, getAllCredentials and searchCredentials return is        *)
(* checked under a third specification that starts from an unlocked session *)
(* whose vault, the one the persisted envelope was made from, holds up to   *)
(* MaxListed of the credentials below, in any order, and answers the three  *)
(* messages.  A vault decrypted from storage holds what was written there:  *)
(* a credential of it may lack modified, url or email.                      *)
(***************************************************************************)
MaxListed == 3

ListedCredentials ==
    { [id |-> << 1, 1 >>, name |-> <<"G", "m">>, domain |-> <<"g", "m">>,
       username |-> <<"a">>, password |-> "x", created |-> 1, modified |-> 3],
      [id |-> << 2, 1 >>, name |-> <<"W">>, domain |-> <<"x", "g", "m">>,
       username |-> <<"b">>, password |-> "y", created |-> 2, modified |-> 2],
      [id |-> << 4, 1 >>, name |-> <<"W">>, domain |-> <<"x", "g", "m">>,
       url |-> <<"https://", "x", "g", "m", "/">>, username |-> <<"b">>,
       password |-> "y", created |-> 4],
      [id |-> << 5, 1 >>, name |-> <<"N">>, domain |-> <<"n">>,
       username |-> <<"n">>, email |-> <<"G", "w">>, password |-> "z",
       created |-> 5, modified |-> 1] }

\* the arrays this.vault.credentials can be
ListedVaults ==
    { creds \in UNION { [1..n -> ListedCredentials] : n \in 0..MaxListed } :
         \A j, k \in 1..Len(creds) : creds[j] = creds[k] => j = k }

\* message.domain and message.query
ListedDomains == { << >>, <<"g", "m">>, <<"G", "m">> }
ListedQueries == { << >>, <<"G">>, <<"w">> }

ListingInit ==
    /\ argon2Loaded = FALSE
    /\ \E creds \in ListedVaults :
          /\ vault = Some([NewVault(StartTime, FALSE)
                              EXCEPT !.credentials = creds])
          /\ storage = [vault |-> Some(Pbkdf2Envelope(
                                     JsonStringify(Val(vault)), "p1", 1, 2)),
                        setupCompleted |-> TRUE, autoLockDelay |-> None]
    /\ isUnlocked = TRUE
    /\ masterPassword = Some("p1")
    /\ autoLockDelay = Some(DefaultDelay)
    /\ unlockTime = Some(StartTime)
    /\ autoLockTimer = Some(1)
    /\ timers = {[id |-> 1, deadline |-> StartTime + DefaultDelay]}
    /\ now = StartTime
    /\ rng = 2
    /\ handlers = << >>
    /\ nev = 0
    /\ last = [type |-> "none", arg |-> NoArg, resp |-> NoResp,
               wasUnlocked |-> FALSE]

\* GET_CREDENTIALS: handleMessage returns this.getCredentials(message.domain)
GetCredentialsMsg(domain) ==
    /\ last' = Event("GET_CREDENTIALS", [domain |-> domain],
                     GetCredentials(isUnlocked, vault, domain))
    /\ UNCHANGED << session, argon2Loaded, storage, timers, now, rng,
                    handlers, nev >>

\* GET_ALL_CREDENTIALS: handleMessage returns this.getAllCredentials()
GetAllCredentialsMsg ==
    /\ last' = Event("GET_ALL_CREDENTIALS", NoArg,
                     GetAllCredentials(isUnlocked, vault))
    /\ UNCHANGED << session, argon2Loaded, storage, timers, now, rng,
                    handlers, nev >>

\* SEARCH_CREDENTIALS: handleMessage returns
\* this.searchCredentials(message.query)
SearchCredentialsMsg(query) ==
    /\ last' = Event("SEARCH_CREDENTIALS", [query |-> query],
                     SearchCredentials(isUnlocked, vault, query))
    /\ UNCHANGED << session, argon2Loaded, storage, timers, now, rng,
                    handlers, nev >>

ListingNext ==
    \/ \E domain \in ListedDomains : GetCredentialsMsg(domain)
    \/ GetAllCredentialsMsg
    \/ \E query \in ListedQueries : SearchCredentialsMsg(query)

ListingSpec == ListingInit /\ [][ListingNext]_vars

\* text sub occurs in text s, letters compared without regard to case
OccursIgnoringCase(s, sub) ==
    \E i \in 1..(Len(s) + 1) :
        /\ i + Len(sub) - 1 <= Len(s)
        /\ \A k \in 1..Len(sub) : LowerChar(s[i + k - 1]) = LowerChar(sub[k])

\* text sub occurs in text s as it is
Occurs(s, sub) ==
    \E i \in 1..(Len(s) + 1) :
        /\ i + Len(sub) - 1 <= Len(s)
        /\ \A k \in 1..Len(sub) : s[i + k - 1] = sub[k]

\* the credentials of the array got, and got names each of them once
Listed(got) == {got[k] : k \in 1..Len(got)}
NoRepeats(got) == \A j, k \in 1..Len(got) : got[j] = got[k] => j = k

\* C32: getCredentials(domain) in an unlocked session returns exactly the
\* credentials of the vault whose domain equals the argument, or whose url
\* contains it, or whose name contains it without regard to case, each
\* once: one whose domain only contains the argument is returned only for
\* its url or its name.
C32_DomainLookup ==
    [][\A domain \in ListedDomains :
          GetCredentialsMsg(domain) =>
             LET got == last'.resp.credentials
                 Wanted(c) ==
                    \/ c.domain = domain
                    \/ Has(c, "url") /\ Occurs(c.url, domain)
                    \/ Has(c, "name") /\ OccursIgnoringCase(c.name, domain)
             IN  /\ NoRepeats(got)
                 /\ Listed(got) =
                       {c \in Listed(Val(vault).credentials) : Wanted(c)}]_vars

\* C32: GET_CREDENTIALS for "gm" was answered from a vault holding two
\* credentials of domain "xgm" with a name that does not match: the one
\* with a url containing "gm" is returned, the one without a url is not.
C32_ReturnedForItsUrlOnly ==
    /\ last.type = "GET_CREDENTIALS"
    /\ last.arg.domain = <<"g", "m">>
    /\ isUnlocked
    /\ \E j, k \in 1..Len(Val(vault).credentials) :
          LET c == Val(vault).credentials[j]
              d == Val(vault).credentials[k]
          IN  /\ c.domain = <<"x", "g", "m">> /\ Has(c, "url")
              /\ d.domain = <<"x", "g", "m">> /\ ~Has(d, "url")
              /\ c \in Listed(last.resp.credentials)
              /\ d \notin Listed(last.resp.credentials)

(***************************************************************************)
(* C33, C34                                                                 *)
(***************************************************************************)
\* C33: searchCredentials(query) in an unlocked session returns exactly the
\* credentials of the vault in whose name, domain, username or email the
\* query occurs without regard to case, each once, and for the empty query
\* it returns the empty list.
C33_Search ==
    [][\A query \in ListedQueries :
          SearchCredentialsMsg(query) =>
             LET got == last'.resp.credentials
                 In(c, f) == Has(c, f) /\ OccursIgnoringCase(c[f], query)
                 Wanted(c) == \/ In(c, "name") \/ In(c, "domain")
                              \/ In(c, "username") \/ In(c, "email")
             IN  IF query = << >> THEN got = << >>
                 ELSE /\ NoRepeats(got)
                      /\ Listed(got) =
                            {c \in Listed(Val(vault).credentials) :
                                Wanted(c)}]_vars

\* C33: SEARCH_CREDENTIALS for "w" was answered from a vault of three
\* credentials with the one named "W" and the one whose email is "Gw", and
\* without the third, in which "w" does not occur.
C33_FoundByNameAndEmail ==
    /\ last.type = "SEARCH_CREDENTIALS"
    /\ last.arg.query = <<"w">>
    /\ isUnlocked
    /\ Len(Val(vault).credentials) = 3
    /\ Len(last.resp.credentials) = 2
    /\ \E c, d \in Listed(last.resp.credentials) :
          /\ c.name = <<"W">>
          /\ Has(d, "email") /\ d.email = <<"G", "w">> /\ d.name = <<"N">>

\* (modified, or created where modified is absent)
SortKey(c) == IF Has(c, "modified") THEN c.modified ELSE c.created

\* the three listing messages
ListingMsg ==
    \/ \E domain \in ListedDomains : GetCredentialsMsg(domain)
    \/ GetAllCredentialsMsg
    \/ \E query \in ListedQueries : SearchCredentialsMsg(query)

\* C34: what getCredentials, getAllCredentials and searchCredentials return
\* is ordered by modified descending, created standing in where modified is
\* absent; GET_ALL_CREDENTIALS returns every credential of the vault once;
\* and answering leaves this.vault, order included, and the rest of the
\* session and the storage as they were.
C34_MostRecentFirst ==
    /\ [][ListingMsg =>
            LET got == last'.resp.credentials
            IN  /\ \A k \in 1..(Len(got) - 1) :
                      SortKey(got[k]) >= SortKey(got[k + 1])
                /\ session' = session
                /\ storage' = storage]_vars
    /\ [][GetAllCredentialsMsg =>
            /\ NoRepeats(last'.resp.credentials)
            /\ Listed(last'.resp.credentials) =
                  Listed(Val(vault).credentials)]_vars

\* C34: GET_ALL_CREDENTIALS was answered from a vault of three credentials
\* in another order than the vault's, a credential without modified placed
\* by its created before one with an older modified, and the vault is in
\* its own order still.
C34_ReorderedCopy ==
    /\ last.type = "GET_ALL_CREDENTIALS"
    /\ isUnlocked
    /\ Len(Val(vault).credentials) = 3
    /\ last.resp.credentials # Val(vault).credentials
    /\ ~Has(last.resp.credentials[1], "modified")
    /\ ~Has(Val(vault).credentials[3], "modified")
    /\ Has(last.resp.credentials[2], "modified")

(***************************************************************************)
(* C35.  The behaviours of Spec in which every chrome.storage.local.set     *)
(* resolves: the steps of Next that leave no handler with a rejected write. *)
(***************************************************************************)
NoWriteFails == \A i \in 1..Len(handlers') : ~handlers'[i].failed

\* Next, with the three steps that call chrome.storage.local.set kept to
\* the calls that resolve
WritesSucceedNext ==
    \/ \E masterPw \in Passwords : SetupVault(masterPw)
    \/ \E masterPw \in Passwords : UnlockVault(masterPw)
    \/ LockVault
    \/ \E credential \in CredentialInputs :
          \E suffix \in SuffixChoices(vault, now) :
              SaveCredential(credential, suffix)
    \/ \E id \in Ids(vault) \cup {UnknownId} : DeleteCredential(id)
    \/ \E id \in Ids(vault) \cup {UnknownId} :
          \E credential \in UpdateInputs(id) : UpdateCredential(credential)
    \/ \E delay \in DelayInputs : UpdateAutoLock(delay) /\ NoWriteFails
    \/ \E i \in 1..Len(handlers) : Argon2Done(i) /\ NoWriteFails
    \/ \E i \in 1..Len(handlers) : Argon2Throws(i)
    \/ \E i \in 1..Len(handlers) : Pbkdf2Done(i) /\ NoWriteFails
    \/ \E i \in 1..Len(handlers) : SetupVaultDone(i)
    \/ \E i \in 1..Len(handlers) : UnlockVaultGot(i)
    \/ \E i \in 1..Len(handlers) : UnlockVaultDone(i)
    \/ \E i \in 1..Len(handlers) : MutationDone(i)
    \/ \E i \in 1..Len(handlers) : UpdateAutoLockDone(i)
    \/ TimerFire
    \/ Tick

WritesSucceedSpec == Init /\ [][WritesSucceedNext]_vars

\* no handler is suspended at an await
Quiescent == handlers = << >>

\* C35: when no storage write fails, whenever the session is unlocked and
\* no handler is in flight the persisted envelope decrypts under
\* this.masterPassword to exactly this.vault, however the handlers were
\* interleaved.
C35_StorageMatchesMemory ==
    (isUnlocked /\ Quiescent) =>
        /\ IsSome(vault) /\ IsSome(masterPassword)
        /\ StoredVault(Val(masterPassword)) = vault

\* C35: two saves were both acknowledged, no write failed and no handler
\* is in flight; the vault in memory holds both credentials and the
\* persisted envelope, which decrypts under the session's password, holds
\* one credential less: the save answered last wrote the older text over
\* the newer one.
C35_AcknowledgedSaveNotPersisted ==
    /\ isUnlocked
    /\ Quiescent
    /\ last.type = "SAVE_CREDENTIAL"
    /\ Has(last.resp, "success")
    /\ IsSome(StoredVault(Val(masterPassword)))
    /\ LET kept == Val(StoredVault(Val(masterPassword))).credentials
           held == Val(vault).credentials
       IN  /\ Len(held) = Len(kept) + 2 - 1
           /\ SubSeq(held, 1, Len(kept)) = kept
           /\ held[Len(held)].id # last.resp.credential.id

(***************************************************************************)
(* C36                                                                      *)
(***************************************************************************)
\* handler i is a setupVault or an unlockVault taking a step other than
\* its return of success
StepShortOfSuccess(i) ==
    /\ handlers[i].op \in {"SETUP_VAULT", "UNLOCK_VAULT"}
    /\ \/ Argon2Done(i) \/ Argon2Throws(i) \/ Pbkdf2Done(i)
       \/ UnlockVaultGot(i)
       \/ SetupVaultDone(i) /\ Has(last'.resp, "error")
       \/ UnlockVaultDone(i) /\ Has(last'.resp, "error")

\* C36: a setupVault or unlockVault assigns nothing to the session before
\* its return of success: its receipt and each of its steps up to and
\* including a return of {error} leave vault, masterPassword, isUnlocked,
\* unlockTime, the timer handle, the delay and the pending timers as they
\* were; a setupVault whose storage write was rejected and an unlockVault
\* whose password is not the envelope's return {error}; so a wrong password
\* entered while the session is unlocked leaves it unlocked with its
\* countdown unchanged.
C36_FailureChangesNothing ==
    /\ [][(\/ \E masterPw \in Passwords : SetupVault(masterPw)
           \/ \E masterPw \in Passwords : UnlockVault(masterPw)
           \/ \E i \in 1..Len(handlers) : StepShortOfSuccess(i)) =>
             /\ session' = session
             /\ timers' = timers]_vars
    /\ [][\A i \in 1..Len(handlers) :
             (handlers[i].failed /\ SetupVaultDone(i)) =>
                /\ Has(last'.resp, "error")
                /\ session' = session /\ timers' = timers]_vars
    /\ [][\A i \in 1..Len(handlers) :
             (/\ handlers[i].op = "UNLOCK_VAULT"
              /\ handlers[i].pc = "decrypting"
              /\ EnvelopePassword(Val(handlers[i].found)) # handlers[i].pw
              /\ UnlockVaultDone(i)) =>
                /\ last'.resp = [error |-> "Invalid password"]
                /\ isUnlocked' = isUnlocked
                /\ session' = session /\ timers' = timers]_vars

\* C36: a wrong password was answered "Invalid password" in a session that
\* was unlocked under another password, and it is unlocked still, its timer
\* pending with the deadline it had.
C36_WrongPasswordWhileUnlocked ==
    /\ last.type = "UNLOCK_VAULT"
    /\ last.resp = [error |-> "Invalid password"]
    /\ last.wasUnlocked
    /\ isUnlocked
    /\ IsSome(vault)
    /\ masterPassword # Some(last.arg.masterPassword)
    /\ IsSome(unlockTime)
    /\ \E t \in timers :
          /\ autoLockTimer = Some(t.id)
          /\ t.deadline = Val(unlockTime) + Val(autoLockDelay)

(***************************************************************************)
(* C37                                                                      *)
(***************************************************************************)
\* a step of saveCredential, deleteCredential or updateCredential: the
\* receipt of the message, or a step of the suspended handler
MutationStep ==
    \/ \E credential \in CredentialInputs : \E suffix \in RandomSuffixes :
          SaveCredential(credential, suffix)
    \/ \E id \in Ids(vault) \cup {UnknownId} : DeleteCredential(id)
    \/ \E id \in Ids(vault) \cup {UnknownId} :
          \E credential \in UpdateInputs(id) : UpdateCredential(credential)
    \/ \E i \in 1..Len(handlers) :
          /\ handlers[i].op \in MutatingOps
          /\ \/ Argon2Done(i) \/ Argon2Throws(i) \/ Pbkdf2Done(i)
             \/ MutationDone(i)

\* the countdown: the delay, the time it runs from, the timer handle and
\* the timers pending
Countdown == << autoLockDelay, unlockTime, autoLockTimer, timers >>

\* C37: no step of saveCredential, updateCredential or deleteCredential,
\* from the receipt of the message to the response, changes autoLockDelay,
\* unlockTime, the timer handle or the pending timers: using the vault does
\* not extend the countdown.  (getCredentials, getAllCredentials,
\* searchCredentials, getStatus and getRemainingTime assign nothing at all;
\* the steps that answer them are checked to leave the session as it is
\* under ListingSpec and CountdownSpec.)
C37_UseDoesNotExtendCountdown ==
    [][MutationStep => Countdown' = Countdown]_vars

\* C37: a save made after the clock moved on from the unlock was
\* acknowledged, and the pending timer still has the deadline
\* unlockTime + delay of the unlock, which is not later than the save.
C37_SavedLateDeadlineKept ==
    /\ last.type = "SAVE_CREDENTIAL"
    /\ Has(last.resp, "success")
    /\ isUnlocked
    /\ IsSome(unlockTime) /\ IsSome(autoLockDelay)
    /\ last.resp.credential.created > Val(unlockTime)
    /\ \E t \in timers :
          /\ autoLockTimer = Some(t.id)
          /\ t.deadline = Val(unlockTime) + Val(autoLockDelay)
          /\ t.deadline <= last.resp.credential.created

(***************************************************************************)
(* C38                                                                      *)
(***************************************************************************)
\* handler i is an updateAutoLock resumed from its storage.set
DelayChangeReturns(i) ==
    /\ handlers[i].op = "UPDATE_AUTO_LOCK"
    /\ UpdateAutoLockDone(i)

\* C38: updateAutoLock assigns the new delay (null for 'never') when the
\* message is received, before the settings write is awaited, and leaves
\* the timer alone at that point; when the write was rejected the request
\* is answered {error}, the delay stays the new value and unlockTime, the
\* timer handle and the pending timers stay as they were; when the write
\* succeeded in an unlocked session the timer of the old handle is
\* cancelled and, for a finite delay, a timer is armed for now + delay.
C38_DelayFirstTimerAfterWrite ==
    /\ [][\A delay \in DelayInputs :
             UpdateAutoLock(delay) =>
                /\ autoLockDelay' = IF delay = <<"n", "e", "v", "e", "r">>
                                    THEN None ELSE Some(300000)
                /\ unlockTime' = unlockTime
                /\ autoLockTimer' = autoLockTimer
                /\ timers' = timers
                /\ last' = last
                /\ handlers'[Len(handlers')].pc = "storing"]_vars
    /\ [][\A i \in 1..Len(handlers) :
             (handlers[i].failed /\ DelayChangeReturns(i)) =>
                /\ last'.type = "UPDATE_AUTO_LOCK"
                /\ Has(last'.resp, "error")
                /\ autoLockDelay' = autoLockDelay
                /\ unlockTime' = unlockTime
                /\ autoLockTimer' = autoLockTimer
                /\ timers' = timers]_vars
    /\ [][\A i \in 1..Len(handlers) :
             (~handlers[i].failed /\ isUnlocked /\ DelayChangeReturns(i)) =>
                /\ last'.resp = [success |-> TRUE]
                /\ \A t \in timers' : autoLockTimer # Some(t.id)
                                      \/ autoLockTimer' = Some(t.id)
                /\ IF IsSome(autoLockDelay)
                   THEN /\ unlockTime' = Some(now)
                        /\ \E t \in timers' :
                              /\ autoLockTimer' = Some(t.id)
                              /\ t.deadline = now + Val(autoLockDelay)
                   ELSE autoLockTimer' = None]_vars

\* C38: UPDATE_AUTO_LOCK with 'never' was answered {error} in an unlocked
\* session: the delay in memory is null, for which getRemainingTime reports
\* {remaining: null}, the delay persisted is not, and the timer armed at
\* the unlock is pending with the handle the session holds.
C38_ReportDisagreesWithTimer ==
    /\ last.type = "UPDATE_AUTO_LOCK"
    /\ Has(last.resp, "error")
    /\ last.wasUnlocked
    /\ isUnlocked
    /\ autoLockDelay = None
    /\ GetRemainingTime(isUnlocked, unlockTime, autoLockDelay, now)
          = [remaining |-> None]
    /\ IsSome(unlockTime)
    /\ \E t \in timers :
          /\ autoLockTimer = Some(t.id)
          /\ t.deadline = Val(unlockTime) + DefaultDelay

(***************************************************************************)
(* Startup.  The background process can be stopped and started again by the *)
(* browser; the constructor and init() then run anew, and loadSettings      *)
(* reads the delay persisted.  Spec has no restart, so what loadSettings    *)
(* restores is checked under a specification of updateAutoLock and the      *)
(* restart alone, in which the settings writes resolve.  In storage None    *)
(* stands for null and for a missing autoLockDelay alike: || takes the      *)
(* default for both.                                                        *)
(***************************************************************************)
\* the delays the settings are changed to: 'never', 0, 61500, 300000
SettingsDelayInputs ==
    DelayInputs \cup { <<"0">>, <<"6", "1", "5", "0", "0">> }

\* the process has started with nothing or with a finite delay persisted
SettingsInit ==
    /\ vault = None
    /\ isUnlocked = FALSE
    /\ masterPassword = None
    /\ autoLockTimer = None
    /\ unlockTime = None
    /\ argon2Loaded \in BOOLEAN
    /\ \E st \in StoredAtStart : \E stored \in {None, Some(ShortDelay)} :
          /\ storage = [st EXCEPT !.autoLockDelay = stored]
          /\ autoLockDelay = LoadSettings(stored)
    /\ timers = {}
    /\ now = StartTime
    /\ rng = 2
    /\ handlers = << >>
    /\ nev = 0
    /\ last = [type |-> "none", arg |-> NoArg, resp |-> NoResp,
               wasUnlocked |-> FALSE]

\* the process is stopped and started: the handlers suspended and the
\* timers pending are gone, the constructor resets the session, init()
\* loads the Argon2 library, or fails to, and the settings.  The event
\* records the delay held before and the value loadSettings reads.
Restart ==
    /\ CanReceive
    /\ vault' = None
    /\ isUnlocked' = FALSE
    /\ masterPassword' = None
    /\ autoLockTimer' = None
    /\ unlockTime' = None
    /\ timers' = {}
    /\ handlers' = << >>
    /\ argon2Loaded' \in BOOLEAN
    /\ autoLockDelay' = LoadSettings(storage.autoLockDelay)
    /\ last' = Event("restart",
                     [held |-> autoLockDelay, stored |-> storage.autoLockDelay],
                     NoResp)
    /\ nev' = nev + 1
    /\ UNCHANGED << storage, now, rng >>

SettingsNext ==
    \/ \E delay \in SettingsDelayInputs : UpdateAutoLock(delay) /\ NoWriteFails
    \/ \E i \in 1..Len(handlers) : UpdateAutoLockDone(i)
    \/ Restart

SettingsSpec == SettingsInit /\ [][SettingsNext]_vars

\* C39: at startup the delay in memory is the delay persisted when that is
\* a positive number, and 300000 (five minutes) when what is persisted is
\* null, 0 or nothing; the session is locked with no timer.
C39_StartupDelay ==
    [][Restart =>
          /\ autoLockDelay' =
                IF IsSome(storage.autoLockDelay)
                   /\ Val(storage.autoLockDelay) > 0
                THEN storage.autoLockDelay
                ELSE Some(300000)
          /\ IsSome(autoLockDelay')
          /\ Locked' /\ timers' = {} /\ unlockTime' = None]_vars

\* C39: the process restarted while the delay in memory and the delay
\* persisted were both null, as updateAutoLock('never') left them, and the
\* delay in memory is five minutes now.
C39_NeverLostAtRestart ==
    /\ last.type = "restart"
    /\ last.arg.held = None
    /\ last.arg.stored = None
    /\ storage.autoLockDelay = None
    /\ autoLockDelay = Some(DefaultDelay)

====
